---------------------------- MODULE Spec2Model ----------------------------
(***************************************************************************)
(* Model of the Convai modding tool's materialization and merge engine:    *)
(*   - the INI section merger  (core/unreal_engine_manager.py)             *)
(*   - the case-preserving identifier rewriter (core/file_utility_manager) *)
(*   - the archive installer   (core/download_utils.py)                    *)
(* Text is a sequence of one-character strings; a file is the sequence of  *)
(* its lines (what str.splitlines() returns, each line written back with   *)
(* a terminating newline).                                                *)
(***************************************************************************)
EXTENDS Integers, Sequences, FiniteSets, TLC

VARIABLES
    target,        \* the INI file at target_path: [kind, lines]
    target0,       \* the INI file before the first merge
    before,        \* the INI file right before the latest merge
    desired,       \* desired_content, as its lines
    runs,          \* merges done so far (saturates at 2)
    outcome,       \* how the latest merge ended: "none", "ok", "raised"
    pieces,        \* the text handed to case_preserving_replace, in pieces
    new_value,     \* the new_value handed to case_preserving_replace
    text,          \* the same text as one sequence of characters
    result,        \* what case_preserving_replace returned
    impl,          \* which case_preserving_replace ran: "none",
                   \* "file_utility_manager", "file_utils"
    tree,          \* the entries below the directory handed to
                   \* update_directory_structure: [id, path, kind, content, mode]
    tree0,         \* the same tree before update_directory_structure
    listing,       \* the order in which the system lists a directory
    walked,        \* update_directory_structure: "none", "ok", "again"
    tokens,        \* [old, new]: old_value and new_value of the rewrite
    tree1,         \* the tree between the first and the second rewrite
    plugins,       \* the entries below plugins_dir: [path, kind, ver]
    plugins_before,\* the same before the latest install
    locked,        \* paths of files below plugins_dir that cannot be deleted
    latest,        \* the archive handed to the latest install
    ret,           \* the latest install: "none", "installed", "None", "raised"
    ret_path,      \* the path the latest install returned
    installs,      \* installs done so far
    clean,         \* TRUE while every install so far returned a path
    disk,          \* everything on the disk: the engine's templates and the projects
    disk0,         \* the disk before build_project_structure
    project_name,  \* self.project_name
    built,         \* build_project_structure: "none", "True", "False"
    stages,        \* the stages of the build that ran, each with how it ended
    par_fs,        \* the plugin trees of all projects: [path, kind, ver], paths from the disk's top
    par_ini,       \* per project directory, its DefaultGame.ini: [kind, lines]
    par_pc,        \* per run, the operation it is to do next
    par_loc,       \* per run, its local variables: [existing, plugin_folder]
    par_in,        \* per run, what it was started with: [target, archive, desired]
    par_fs0,       \* par_fs when the runs started
    par_ini0,      \* par_ini when the runs started
    meta_file,     \* ConvaiEssentials/ModdingMetaData.txt: [kind, data]
    saves,         \* the save_metadata calls made so far: [impl, data]
    upd_fs,        \* everything below the directory that holds the projects: [path, kind, ver]
    upd_fs0,       \* upd_fs when update_modding_dependencies was called
    upd_held,      \* paths of files that cannot be deleted
    upd_dir,       \* self.project_dir, as its path
    paths_to_delete,\* the plugin and content pack directories the update found
    zip_files,     \* the zip files the update found in ConvaiEssentials
    upd_pc,        \* the step the update is at
    upd_k          \* the place in the loop of that step

mergeVars == <<target, target0, before, desired, runs, outcome>>

replaceVars == <<pieces, new_value, text, result, impl>>

treeVars == <<tree, tree0, listing, walked, tokens, tree1>>

vars == <<target, target0, before, desired, runs, outcome,
          pieces, new_value, text, result, impl,
          tree, tree0, listing, walked, tokens, tree1,
          plugins, plugins_before, locked, latest, ret, ret_path, installs,
          clean,
          disk, disk0, project_name, built, stages,
          par_fs, par_ini, par_pc, par_loc, par_in, par_fs0, par_ini0,
          meta_file, saves,
          upd_fs, upd_fs0, upd_held, upd_dir, paths_to_delete, zip_files, upd_pc, upd_k>>

installVars ==
    <<plugins, plugins_before, locked, latest, ret, ret_path, installs,
      clean>>

buildVars == <<disk, disk0, project_name, built, stages>>

parVars == <<par_fs, par_ini, par_pc, par_loc, par_in, par_fs0, par_ini0>>

metaVars == <<meta_file, saves>>

updVars == <<upd_fs, upd_fs0, upd_held, upd_dir, paths_to_delete, zip_files, upd_pc, upd_k>>

\* the components a specification does not exercise stay as constructed
MergeIdle ==
    /\ target = [kind |-> "missing", lines |-> <<>>]
    /\ target0 = target
    /\ before = target
    /\ desired = <<>>
    /\ runs = 0
    /\ outcome = "none"

ReplaceIdle ==
    /\ pieces = <<>>
    /\ new_value = <<>>
    /\ text = <<>>
    /\ result = <<>>
    /\ impl = "none"

TreeIdle ==
    /\ tree = {}
    /\ tree0 = {}
    /\ listing = "asc"
    /\ walked = "none"
    /\ tokens = [old |-> <<>>, new |-> <<>>]
    /\ tree1 = {}

InstallIdle ==
    /\ plugins = {}
    /\ plugins_before = {}
    /\ locked = {}
    /\ latest = [kind |-> "none"]
    /\ ret = "none"
    /\ ret_path = <<>>
    /\ installs = 0
    /\ clean = TRUE

BuildIdle ==
    /\ disk = {}
    /\ disk0 = {}
    /\ project_name = <<>>
    /\ built = "none"
    /\ stages = <<>>

ParIdle ==
    /\ par_fs = {}
    /\ par_ini = <<>>
    /\ par_pc = <<>>
    /\ par_loc = <<>>
    /\ par_in = <<>>
    /\ par_fs0 = {}
    /\ par_ini0 = <<>>

MetaIdle ==
    /\ meta_file = [kind |-> "missing", data |-> <<>>]
    /\ saves = <<>>

UpdIdle ==
    /\ upd_fs = {}
    /\ upd_fs0 = {}
    /\ upd_held = {}
    /\ upd_dir = <<>>
    /\ paths_to_delete = <<>>
    /\ zip_files = <<>>
    /\ upd_pc = "idle"
    /\ upd_k = 0

(***************************************************************************)
(* Bounds                                                                  *)
(***************************************************************************)
\* most lines of the target file and of desired_content taken together,
\* of the target file, and of desired_content
MaxLines == 5
MaxFileLen == 4
MaxDesiredLen == 3

(***************************************************************************)
(* Text helpers (Python str methods)                                       *)
(***************************************************************************)
IsSpace(c) == c \in {" ", "\t"}

RECURSIVE LStrip(_)
LStrip(s) == IF s # <<>> /\ IsSpace(Head(s)) THEN LStrip(Tail(s)) ELSE s

RECURSIVE RStrip(_)
RStrip(s) ==
    IF s # <<>> /\ IsSpace(s[Len(s)]) THEN RStrip(SubSeq(s, 1, Len(s) - 1)) ELSE s

\* str.strip()
Strip(s) == RStrip(LStrip(s))

\* str.find(c) + 1: the first index of c in s, 0 when absent
IndexOf(s, c) ==
    IF \E i \in 1..Len(s) : s[i] = c
    THEN CHOOSE i \in 1..Len(s) : s[i] = c /\ \A j \in 1..(i - 1) : s[j] # c
    ELSE 0

\* line.startswith("[") and line.endswith("]")
IsHeader(line) == line # <<>> /\ Head(line) = "[" /\ line[Len(line)] = "]"

(***************************************************************************)
(* Ordered dict section -> list of lines, as a sequence of [hdr, lines]    *)
(***************************************************************************)
HasSection(doc, h) == \E i \in 1..Len(doc) : doc[i].hdr = h

\* dict.get(section, [])
SectionLines(doc, h) ==
    IF HasSection(doc, h)
    THEN doc[CHOOSE i \in 1..Len(doc) : doc[i].hdr = h].lines
    ELSE <<>>

\* dict[section] = lines: an existing key keeps its place, a new one goes last
PutSection(doc, h, ls) ==
    IF HasSection(doc, h)
    THEN [i \in 1..Len(doc) |->
            IF doc[i].hdr = h THEN [hdr |-> h, lines |-> ls] ELSE doc[i]]
    ELSE Append(doc, [hdr |-> h, lines |-> ls])

\* mutant: sections[current] = [] where the code has setdefault
SetDefault_Reset(doc, h) == PutSection(doc, h, <<>>)

\* dict.setdefault(section, [])
SetDefault(doc, h) == IF HasSection(doc, h) THEN doc ELSE PutSection(doc, h, <<>>)

\* dict.setdefault(section, []).append(line)
AppendLine(doc, h, l) == PutSection(doc, h, Append(SectionLines(doc, h), l))

Headers(doc) == [i \in 1..Len(doc) |-> doc[i].hdr]

(***************************************************************************)
(* UnrealEngineManager._parse_ini_sections                                 *)
(* cur is <<>> for None and <<header>> otherwise.                          *)
(***************************************************************************)
RECURSIVE ParseFrom(_, _, _, _)
ParseFrom(raw, i, doc, cur) ==
    IF i > Len(raw) THEN doc
    ELSE LET line == Strip(raw[i]) IN
         IF line = <<>> THEN ParseFrom(raw, i + 1, doc, cur)
         ELSE IF IsHeader(line)
              THEN ParseFrom(raw, i + 1, SetDefault(doc, line), <<line>>)
         ELSE IF cur = <<>> THEN ParseFrom(raw, i + 1, doc, cur)
         ELSE ParseFrom(raw, i + 1, AppendLine(doc, cur[1], line), cur)

parse_ini_sections(raw) == ParseFrom(raw, 1, <<>>, <<>>)

(***************************************************************************)
(* UnrealEngineManager._merge_ini_file, the reading loop: blank lines under*)
(* a section are kept as "" placeholders.                                  *)
(***************************************************************************)
RECURSIVE ReadFrom(_, _, _, _)
ReadFrom(raw, i, doc, cur) ==
    IF i > Len(raw) THEN doc
    ELSE LET line == Strip(raw[i]) IN
         IF line = <<>>
         THEN ReadFrom(raw, i + 1,
                       IF cur # <<>> THEN AppendLine(doc, cur[1], <<>>) ELSE doc,
                       cur)
         ELSE IF IsHeader(line)
              THEN ReadFrom(raw, i + 1, SetDefault(doc, line), <<line>>)
         ELSE IF cur = <<>> THEN ReadFrom(raw, i + 1, doc, cur)
         ELSE ReadFrom(raw, i + 1, AppendLine(doc, cur[1], line), cur)

read_existing_sections(raw) == ReadFrom(raw, 1, <<>>, <<>>)

(***************************************************************************)
(* UnrealEngineManager._extract_ini_key: (op, key), op "none" for None     *)
(***************************************************************************)
extract_ini_key(line) ==
    LET op   == IF line # <<>> /\ line[1] \in {"+", "-"} THEN line[1] ELSE "none"
        rest == IF op # "none" THEN Tail(line) ELSE line
        eq   == IndexOf(rest, "=")
        key  == IF eq > 0 THEN Strip(SubSeq(rest, 1, eq - 1)) ELSE Strip(rest)
    IN  [op |-> op, key |-> key]

(***************************************************************************)
(* _merge_ini_file, the merge of one section                               *)
(***************************************************************************)
\* mutant: the scalar branch compares the key with the whole line
RemoveScalarKey_WholeLine(existing_lines, key) ==
    SelectSeq(existing_lines, LAMBDA eline : Strip(eline) # key)

\* mutant: the scalar branch drops the +/- lines with that key too
RemoveScalarKey_AnyOp(existing_lines, key) ==
    SelectSeq(existing_lines,
              LAMBDA eline : extract_ini_key(Strip(eline)).key # key)

\* the scalar branch: drop every existing operator-less line with that key
RemoveScalarKey(existing_lines, key) ==
    SelectSeq(existing_lines,
              LAMBDA eline : ~(  extract_ini_key(Strip(eline)).key = key
                              /\ extract_ini_key(Strip(eline)).op = "none"))

\* mutant: the +/- branch appends without removing the identical line
RemoveExact_Keep(existing_lines, dline) == existing_lines

\* mutant: the +/- branch drops every existing line with the same key
RemoveExact_SameKey(existing_lines, dline) ==
    SelectSeq(existing_lines,
              LAMBDA eline : extract_ini_key(Strip(eline)).key
                                 # extract_ini_key(dline).key)

\* the +/- branch: drop every existing line textually identical to dline
RemoveExact(existing_lines, dline) ==
    SelectSeq(existing_lines, LAMBDA eline : Strip(eline) # dline)

\* mutant: a scalar desired line removes nothing
ApplyDesiredLine_ListOnly(existing_lines, dline) ==
    IF extract_ini_key(dline).op = "none"
    THEN existing_lines
    ELSE RemoveExact(existing_lines, dline)

ApplyDesiredLine(existing_lines, dline) ==
    IF extract_ini_key(dline).op = "none"
    THEN RemoveScalarKey(existing_lines, extract_ini_key(dline).key)
    ELSE RemoveExact(existing_lines, dline)

RECURSIVE CleanupFrom(_, _, _)
CleanupFrom(existing_lines, desired_lines, i) ==
    IF i > Len(desired_lines) THEN existing_lines
    ELSE CleanupFrom(ApplyDesiredLine(existing_lines, desired_lines[i]),
                     desired_lines, i + 1)

\* unique_to_add: first occurrences, by exact text
RECURSIVE UniqueFrom(_, _, _)
UniqueFrom(lines, i, acc) ==
    IF i > Len(lines) THEN acc
    ELSE UniqueFrom(lines, i + 1,
                    IF \E j \in 1..Len(acc) : acc[j] = lines[i]
                    THEN acc ELSE Append(acc, lines[i]))

\* mutant: every line of to_add_after_cleanup is appended
unique_to_add_All(to_add_after_cleanup) == to_add_after_cleanup

unique_to_add(to_add_after_cleanup) == UniqueFrom(to_add_after_cleanup, 1, <<>>)

\* while existing_lines and existing_lines[-1] == "": existing_lines.pop()
RECURSIVE PopTrailingBlanks(_)
PopTrailingBlanks(lines) ==
    IF lines # <<>> /\ lines[Len(lines)] = <<>>
    THEN PopTrailingBlanks(SubSeq(lines, 1, Len(lines) - 1))
    ELSE lines

\* mutant: the desired lines are appended without the cleanup
MergeSection_Append(existing_lines, desired_lines) ==
    PopTrailingBlanks(existing_lines) \o unique_to_add(desired_lines)

MergeSection(existing_lines, desired_lines) ==
    PopTrailingBlanks(CleanupFrom(existing_lines, desired_lines, 1))
        \o unique_to_add(desired_lines)

RECURSIVE MergeFrom(_, _, _)
MergeFrom(existing_sections, desired_sections, i) ==
    IF i > Len(desired_sections) THEN existing_sections
    ELSE LET section == desired_sections[i].hdr IN
         MergeFrom(PutSection(existing_sections, section,
                              MergeSection(SectionLines(existing_sections, section),
                                           desired_sections[i].lines)),
                   desired_sections, i + 1)

MergeSections(existing_sections, desired_sections) ==
    MergeFrom(existing_sections, desired_sections, 1)

\* section_order: the existing keys, then the desired keys not yet among them
RECURSIVE OrderFrom(_, _, _)
OrderFrom(order, hdrs, i) ==
    IF i > Len(hdrs) THEN order
    ELSE OrderFrom(IF \E j \in 1..Len(order) : order[j] = hdrs[i]
                   THEN order ELSE Append(order, hdrs[i]),
                   hdrs, i + 1)

\* mutant: only the desired sections are written
section_order_DesiredOnly(existing_sections, desired_sections) ==
    Headers(desired_sections)

\* mutant: the desired sections come first
section_order_DesiredFirst(existing_sections, desired_sections) ==
    OrderFrom(Headers(desired_sections), Headers(existing_sections), 1)

section_order(existing_sections, desired_sections) ==
    OrderFrom(Headers(existing_sections), Headers(desired_sections), 1)

(***************************************************************************)
(* _merge_ini_file, the writing loop                                       *)
(***************************************************************************)
RECURSIVE DropLeadingBlanks(_)
DropLeadingBlanks(lines) ==
    IF lines # <<>> /\ Head(lines) = <<>> THEN DropLeadingBlanks(Tail(lines)) ELSE lines

\* lines[start_idx .. end_idx]
TrimBlanks(lines) == PopTrailingBlanks(DropLeadingBlanks(lines))

RECURSIVE WriteFrom(_, _, _)
WriteFrom(sections, order, i) ==
    IF i > Len(order) THEN <<>>
    ELSE (IF i > 1 THEN << <<>> >> ELSE <<>>)
            \o <<order[i]>>
            \o TrimBlanks(SectionLines(sections, order[i]))
            \o WriteFrom(sections, order, i + 1)

WriteIni(sections, order) == WriteFrom(sections, order, 1)

\* the file _merge_ini_file writes, from the lines it read
MergedLines(existing_raw, desired_raw) ==
    LET existing_sections == read_existing_sections(existing_raw)
        desired_sections  == parse_ini_sections(desired_raw)
        merged            == MergeSections(existing_sections, desired_sections)
    IN  WriteIni(merged, section_order(merged, desired_sections))

(***************************************************************************)
(* Inputs                                                                  *)
(***************************************************************************)
HdrA == <<"[", "A", "]">>
HdrB == <<"[", "B", "]">>
X1   == <<"X", "=", "1">>
X2   == <<"X", "=", "2">>
Y3i  == <<" ", "Y", "=", "3">>
PXf  == <<"+", "X", "=", "f">>
PXb  == <<"+", "X", "=", "b">>
Blank == <<>>

ExistingAlphabet == {HdrA, HdrB, X1, Y3i, PXf, Blank}
DesiredAlphabet  == {HdrA, HdrB, X1, X2, PXf, PXb}

SeqsOfLen(S, n) == [1..n -> S]

Missing    == [kind |-> "missing", lines |-> <<>>]
Unreadable == [kind |-> "unreadable", lines |-> <<>>]
TextFile(ls) == [kind |-> "text", lines |-> ls]

\* the target files of n lines; a missing or an unreadable file counts as 0 lines
TargetFiles(n) ==
    {TextFile(ls) : ls \in SeqsOfLen(ExistingAlphabet, n)}
        \cup (IF n = 0 THEN {Missing, Unreadable} ELSE {})

DesiredContents(m) == SeqsOfLen(DesiredAlphabet, m)

(***************************************************************************)
(* The merger as a state machine                                           *)
(***************************************************************************)
InitMerge ==
    /\ \E n \in 0..MaxFileLen : \E m \in 0..MaxDesiredLen :
          /\ n + m <= MaxLines
          /\ target \in TargetFiles(n)
          /\ desired \in DesiredContents(m)
    /\ target0 = target
    /\ before = target
    /\ runs = 0
    /\ outcome = "none"
    /\ ReplaceIdle
    /\ TreeIdle
    /\ InstallIdle
    /\ BuildIdle
    /\ ParIdle
    /\ MetaIdle
    /\ UpdIdle

\* logger.warn: ConvaiLogger defines warning, not warn, so the except branch
\* of the reading loop raises AttributeError out of _merge_ini_file
LoggerHasWarn == FALSE

\* one call _merge_ini_file(target_path, desired_content, ...)
MergeIniFile ==
    /\ before' = target
    /\ runs' = IF runs < 2 THEN runs + 1 ELSE runs
    /\ UNCHANGED <<target0, desired>>
    /\ UNCHANGED <<replaceVars, treeVars, installVars, buildVars, parVars, metaVars, updVars>>
    /\ IF target.kind = "unreadable" /\ ~LoggerHasWarn
       THEN /\ outcome' = "raised"
            /\ target' = target
       ELSE /\ outcome' = "ok"
            /\ target' = TextFile(MergedLines(IF target.kind = "text"
                                              THEN target.lines ELSE <<>>,
                                              desired))

NextMerge == MergeIniFile

SpecMerge == InitMerge /\ [][NextMerge]_vars

(***************************************************************************)
(* Vocabulary of the merger's properties                                   *)
(***************************************************************************)
SectionHeaders == {HdrA, HdrB}

Count(lines, l) == Cardinality({i \in 1..Len(lines) : lines[i] = l})

IsScalarWithKey(l, key) ==
    l # <<>> /\ extract_ini_key(l).op = "none" /\ extract_ini_key(l).key = key

IsListStyle(l) == l # <<>> /\ extract_ini_key(l).op # "none"

ScalarsWithKey(lines, key) == SelectSeq(lines, LAMBDA l : IsScalarWithKey(l, key))

\* the lines the alphabets offer, as the merger sees them (stripped)
ExistingLines == {Strip(e) : e \in ExistingAlphabet} \ ({<<>>} \cup SectionHeaders)
DesiredLines  == DesiredAlphabet \ SectionHeaders
DesiredScalarLines == {d \in DesiredLines : ~IsListStyle(d)}
DesiredListLines   == {d \in DesiredLines : IsListStyle(d)}
ExistingListLines  == {e \in ExistingLines : IsListStyle(e)}

\* the sections of a file, as the merger reads them
SectionsOf(file) == read_existing_sections(file.lines)

Merged == runs >= 1 /\ outcome = "ok"

\* C1: merge idempotence: a merge that follows a merge with the same desired
\* document leaves the target file exactly as the earlier merge left it.
C1_MergeIdempotent == runs = 2 => target = before

C1_Witness ==
    /\ runs = 2 /\ outcome = "ok"
    /\ target0.kind = "text" /\ target # target0
    /\ \E S \in SectionHeaders :
          HasSection(SectionsOf(target0), S) /\ HasSection(parse_ini_sections(desired), S)

\* the lines d of DesiredScalarLines whose case C2 is about in section S:
\* the desired section holds d and the section before the merge holds an
\* operator-less line with the key of d
C2_Case(was, want, S, d) ==
    /\ Count(SectionLines(want, S), d) > 0
    /\ ScalarsWithKey(SectionLines(was, S), extract_ini_key(d).key) # <<>>

\* C2 as stated: when the section S of the file before the merge holds
\* operator-less lines with key X and the desired section S holds the scalar
\* line X=v, X=v is the only operator-less line with key X in S afterwards.
C2_Original ==
    (runs = 1 /\ outcome = "ok") =>
        LET was  == SectionsOf(before)
            now  == SectionsOf(target)
            want == parse_ini_sections(desired)
        IN  \A S \in SectionHeaders : \A d \in DesiredScalarLines :
                C2_Case(was, want, S, d)
                => ScalarsWithKey(SectionLines(now, S), extract_ini_key(d).key) = <<d>>

\* first occurrences of the lines of a sequence (stated without the merger's loop)
FirstOccurrences(lines) ==
    LET keep == {i \in 1..Len(lines) : \A j \in 1..(i - 1) : lines[j] # lines[i]}
        F[i \in 0..Len(lines)] ==
            IF i = 0 THEN <<>>
            ELSE IF i \in keep THEN Append(F[i - 1], lines[i]) ELSE F[i - 1]
    IN  F[Len(lines)]

\* C2 amended: the operator-less lines with key X in S after the merge are
\* exactly the desired section's scalar lines with key X, each once and in
\* desired order: every earlier scalar value of X in S is gone, and X=v is the
\* only one when the desired section holds no other scalar line with key X.
C2_Override ==
    (runs = 1 /\ outcome = "ok") =>
        LET was  == SectionsOf(before)
            now  == SectionsOf(target)
            want == parse_ini_sections(desired)
        IN  \A S \in SectionHeaders : \A d \in DesiredScalarLines :
                C2_Case(was, want, S, d)
                => LET key  == extract_ini_key(d).key
                       got  == ScalarsWithKey(SectionLines(now, S), key)
                       asked == ScalarsWithKey(SectionLines(want, S), key)
                   IN  /\ got = FirstOccurrences(asked)
                       /\ (\A i \in 1..Len(asked) : asked[i] = d) => got = <<d>>

\* existing [A] holds X=1 twice, desired [A] holds X=2 alone: merged
C2_Witness ==
    /\ runs = 1 /\ outcome = "ok"
    /\ Count(SectionLines(SectionsOf(before), HdrA), X1) = 2
    /\ SectionLines(parse_ini_sections(desired), HdrA) = <<X2>>
    /\ SectionLines(SectionsOf(target), HdrA) = <<X2>>

\* the pairs (e, d) whose case C3 is about in section S: the original
\* section holds the list-style line e, the desired section another one, d
C3_Case(orig, want, S, e, d) ==
    /\ e # d
    /\ Count(SectionLines(orig, S), e) > 0
    /\ Count(SectionLines(want, S), d) > 0

\* C3 as stated: when section S of the original file holds the list-style
\* line e and the desired section S holds another list-style line d, then
\* after any number n >= 1 of merges S holds e exactly once and d exactly once.
C3_Original ==
    Merged =>
        LET orig == SectionsOf(target0)
            now  == SectionsOf(target)
            want == parse_ini_sections(desired)
        IN  \A S \in SectionHeaders : \A e \in ExistingListLines : \A d \in DesiredListLines :
                C3_Case(orig, want, S, e, d)
                => /\ Count(SectionLines(now, S), e) = 1
                   /\ Count(SectionLines(now, S), d) = 1

\* C3 amended: after any number n >= 1 of merges S holds d exactly once, and
\* holds e as often as the original section held it (exactly once when it
\* held it once), or exactly once when the desired section lists e too.
C3_ListAccumulation ==
    Merged =>
        LET orig == SectionsOf(target0)
            now  == SectionsOf(target)
            want == parse_ini_sections(desired)
        IN  \A S \in SectionHeaders : \A e \in ExistingListLines : \A d \in DesiredListLines :
                C3_Case(orig, want, S, e, d)
                => /\ Count(SectionLines(now, S), d) = 1
                   /\ Count(SectionLines(now, S), e)
                        = IF Count(SectionLines(want, S), e) > 0 THEN 1
                          ELSE Count(SectionLines(orig, S), e)

\* existing [A] holds +X=f once, desired [A] holds +X=b: merged twice
C3_Witness ==
    /\ runs = 2 /\ outcome = "ok"
    /\ Count(SectionLines(SectionsOf(target0), HdrA), PXf) = 1
    /\ SectionLines(parse_ini_sections(desired), HdrA) = <<PXb>>
    /\ Count(SectionLines(SectionsOf(target), HdrA), PXf) = 1
    /\ Count(SectionLines(SectionsOf(target), HdrA), PXb) = 1

\* the lines of a sequence at the indices of a set, in order
LinesAt(lines, keep) ==
    LET F[i \in 0..Len(lines)] ==
            IF i = 0 THEN <<>>
            ELSE IF i \in keep THEN Append(F[i - 1], lines[i]) ELSE F[i - 1]
    IN  F[Len(lines)]

\* the header a raw line stands under (<<>> before the first header); a
\* header line stands under itself
HeaderAt(raw, i) ==
    LET hs == {j \in 1..i : IsHeader(Strip(raw[j]))}
    IN  IF hs = {} THEN <<>>
        ELSE Strip(raw[CHOOSE j \in hs : \A k \in hs : k <= j])

\* a blank line with only blank lines between it and the next header or the
\* end of the file: the blank run that separates two sections
IsSeparator(raw, i) ==
    /\ Strip(raw[i]) = <<>>
    /\ \A j \in (i + 1)..Len(raw) :
          Strip(raw[j]) # <<>>
          => \E k \in (i + 1)..j : IsHeader(Strip(raw[k]))

\* how often the header of S occurs in a file
Blocks(raw, S) == Cardinality({i \in 1..Len(raw) : Strip(raw[i]) = S})

\* the text of section S in a file: its header line and the lines under it,
\* byte for byte, without the blank run that separates S from the next section
SectionText(raw, S) ==
    LinesAt(raw, {i \in 1..Len(raw) : HeaderAt(raw, i) = S /\ ~IsSeparator(raw, i)})

\* section S is written the way the merger writes sections: one block, no
\* whitespace around a line, no blank line right after the header
IsNormalSection(raw, S) ==
    LET body == SectionText(raw, S)
    IN  /\ Blocks(raw, S) = 1
        /\ \A i \in 1..Len(body) : Strip(body[i]) = body[i]
        /\ Len(body) >= 2 => body[2] # <<>>

C4_Case(was, want, S) == HasSection(was, S) /\ ~HasSection(want, S)

C9_UnreadableAsEmpty ==
    (runs = 1 /\ before.kind = "unreadable") =>
        /\ outcome = "ok"
        /\ target = TextFile(MergedLines(<<>>, desired))

\* the document desired_content describes, stated from its lines: its
\* headers in first-occurrence order, under each the first occurrences of the
\* non-blank lines that stand under that header, a blank line between sections
FreshDocument(raw) ==
    LET stripped == [i \in 1..Len(raw) |-> Strip(raw[i])]
        hdrs == FirstOccurrences(SelectSeq(stripped, IsHeader))
        Under(h) == FirstOccurrences(
                        LinesAt(stripped, {i \in 1..Len(stripped) :
                                          /\ stripped[i] # <<>>
                                          /\ ~IsHeader(stripped[i])
                                          /\ HeaderAt(raw, i) = h}))
        F[k \in 0..Len(hdrs)] ==
            IF k = 0 THEN <<>>
            ELSE F[k - 1] \o (IF k > 1 THEN <<Blank>> ELSE <<>>)
                          \o <<hdrs[k]>> \o Under(hdrs[k])
    IN  F[Len(hdrs)]

\* C10: a missing target is treated as empty: the merge completes and creates
\* the file holding exactly the sections of the desired document, in desired
\* order, each with its desired lines de-duplicated by exact text in
\* first-occurrence order.
C10_MissingAsEmpty ==
    (runs = 1 /\ before.kind = "missing") =>
        /\ outcome = "ok"
        /\ target = TextFile(FreshDocument(desired))

\* the desired document repeats a line: merged into a missing file
C10_Witness ==
    /\ runs = 1 /\ before.kind = "missing" /\ outcome = "ok"
    /\ desired = <<HdrA, PXb, PXb>>
    /\ target = TextFile(<<HdrA, PXb>>)

\* a desired line of section S that overrides the scalar line l or is the
\* list-style line l
Touched(want, S, l) ==
    \E k \in 1..Len(SectionLines(want, S)) :
        LET d == SectionLines(want, S)[k]
        IN  \/ /\ ~IsListStyle(d) /\ ~IsListStyle(l)
               /\ extract_ini_key(d).key = extract_ini_key(l).key
            \/ IsListStyle(d) /\ d = l

KeysOffered ==
    {extract_ini_key(l).key :
        l \in {x \in ExistingLines \cup DesiredLines : ~IsListStyle(x)}}

\* C12 as stated: after a merge of any desired document into any existing
\* document, every section holds at most one operator-less line per key.
C12_Original ==
    (runs = 1 /\ outcome = "ok") =>
        LET now == SectionsOf(target)
        IN  \A S \in SectionHeaders : \A key \in KeysOffered :
                Len(ScalarsWithKey(SectionLines(now, S), key)) <= 1

\* C12 amended: after a merge, section S holds for a key that the desired
\* section S assigns exactly the distinct desired scalar lines with that key
\* (one line when the desired section assigns the key one value), and for
\* any other key as many scalar lines as section S held before the merge.
C12_ScalarLines ==
    (runs = 1 /\ outcome = "ok") =>
        LET was  == SectionsOf(before)
            now  == SectionsOf(target)
            want == parse_ini_sections(desired)
        IN  \A S \in SectionHeaders : \A key \in KeysOffered :
                LET got   == ScalarsWithKey(SectionLines(now, S), key)
                    asked == ScalarsWithKey(SectionLines(want, S), key)
                    had   == ScalarsWithKey(SectionLines(was, S), key)
                IN  /\ asked # <<>> => got = FirstOccurrences(asked)
                    /\ asked = <<>> => got = had
                    /\ (Len(FirstOccurrences(asked)) = 1) => Len(got) = 1

\* [A] holds X=1 and Y=3, the desired [A] holds X=2: one X line, one Y line
C12_Witness ==
    /\ runs = 1 /\ outcome = "ok"
    /\ before.lines = <<HdrA, X1, Y3i>>
    /\ desired = <<HdrA, X2>>
    /\ target.lines = <<HdrA, Strip(Y3i), X2>>

\* C13 as stated: after a merge of any desired document into any existing
\* document, no section holds a list-style line twice.
C13_Original ==
    (runs = 1 /\ outcome = "ok") =>
        LET now == SectionsOf(target)
        IN  \A S \in SectionHeaders :
                \A l \in ExistingListLines \cup DesiredListLines :
                    Count(SectionLines(now, S), l) <= 1

\* C13 amended: after a merge, section S holds a list-style line that the
\* desired section S lists exactly once, and any other list-style line as
\* often as section S held it before the merge.
C13_ListLines ==
    (runs = 1 /\ outcome = "ok") =>
        LET was  == SectionsOf(before)
            now  == SectionsOf(target)
            want == parse_ini_sections(desired)
        IN  \A S \in SectionHeaders :
                \A l \in ExistingListLines \cup DesiredListLines :
                    Count(SectionLines(now, S), l) =
                        IF Count(SectionLines(want, S), l) > 0 THEN 1
                        ELSE Count(SectionLines(was, S), l)

\* [A] holds +X=f, the desired [A] lists +X=f and +X=b: one of each
C13_Witness ==
    /\ runs = 1 /\ outcome = "ok"
    /\ before.lines = <<HdrA, PXf>>
    /\ desired = <<HdrA, PXf, PXb>>
    /\ target.lines = <<HdrA, PXf, PXb>>

\* the header lines of a document, in the order in which they stand
RawHeaders(raw) ==
    SelectSeq([i \in 1..Len(raw) |-> Strip(raw[i])], IsHeader)

\* C27: in the file written by _merge_ini_file, the sections that existed
\* before appear in their original relative order (whether or not the
\* desired document names them), and the sections that occur only in the
\* desired document come after all of them, in the order they have in the
\* desired document; every header occurs once
C27_SectionOrder ==
    Merged =>
        LET old   == FirstOccurrences(RawHeaders(IF before.kind = "text"
                                                 THEN before.lines ELSE <<>>))
            want  == FirstOccurrences(RawHeaders(desired))
            fresh == SelectSeq(want, LAMBDA h :
                                 \A i \in 1..Len(old) : old[i] # h)
        IN  RawHeaders(target.lines) = old \o fresh

\* the file held [B], the desired document names [A] and then [B]: [B] is
\* written first, [A] after it
C27_Witness ==
    /\ runs = 1 /\ outcome = "ok"
    /\ before = TextFile(<<HdrB, X1>>)
    /\ desired = <<HdrA, X2, HdrB>>
    /\ RawHeaders(target.lines) = <<HdrB, HdrA>>

\* C28: scalar and list-style lines do not override each other.  After a
\* merge, an existing +/- line of section S that the desired section S does
\* not hold in the same text stands in S as often as before, whatever
\* scalar lines the desired section has for its key; and an existing scalar
\* line whose key no desired scalar line of S assigns stands in S as often
\* as before, whatever +/- lines the desired section has for that key.
C28_NoCrossOverride ==
    Merged =>
        LET was  == SectionsOf(before)
            now  == SectionsOf(target)
            want == parse_ini_sections(desired)
        IN  \A S \in SectionHeaders :
                \A e \in ExistingLines \cup DesiredLines :
                    LET same == Count(SectionLines(now, S), e)
                                    = Count(SectionLines(was, S), e)
                    IN  /\ (IsListStyle(e) /\ Count(SectionLines(want, S), e) = 0)
                           => same
                        /\ (  ~IsListStyle(e)
                            /\ ScalarsWithKey(SectionLines(want, S),
                                              extract_ini_key(e).key) = <<>>)
                           => same

\* [A] holds X=1 and +X=f, the desired [A] lists +X=b: both lines are kept
C28_Witness ==
    /\ runs = 1 /\ outcome = "ok"
    /\ before = TextFile(<<HdrA, X1, PXf>>)
    /\ desired = <<HdrA, PXb>>
    /\ target.lines = <<HdrA, X1, PXf, PXb>>

(***************************************************************************)
(* The case-preserving identifier rewriter                                 *)
(*   FileUtilityManager.case_preserving_replace (file_utility_manager.py)  *)
(*   case_preserving_replace                    (file_utils.py)            *)
(***************************************************************************)
\* most pieces of a text handed to case_preserving_replace
MaxPieces == 4

Lowers == <<"a","b","c","d","e","f","g","h","i","j","k","l","m",
            "n","o","p","q","r","s","t","u","v","w","x","y","z">>
Uppers == <<"A","B","C","D","E","F","G","H","I","J","K","L","M",
            "N","O","P","Q","R","S","T","U","V","W","X","Y","Z">>

IsLowerCh(c) == \E i \in DOMAIN Lowers : Lowers[i] = c
IsUpperCh(c) == \E i \in DOMAIN Uppers : Uppers[i] = c
IsCasedCh(c) == IsLowerCh(c) \/ IsUpperCh(c)

ToUpperCh(c) ==
    IF IsLowerCh(c) THEN Uppers[CHOOSE i \in DOMAIN Lowers : Lowers[i] = c]
    ELSE c
ToLowerCh(c) ==
    IF IsUpperCh(c) THEN Lowers[CHOOSE i \in DOMAIN Uppers : Uppers[i] = c]
    ELSE c

\* str.upper, str.lower
Upper(str) == [i \in 1..Len(str) |-> ToUpperCh(str[i])]
Lower(str) == [i \in 1..Len(str) |-> ToLowerCh(str[i])]

\* str.isupper: a cased character, and no lowercase one
IsUpper(str) ==
    /\ \E i \in 1..Len(str) : IsCasedCh(str[i])
    /\ \A i \in 1..Len(str) : ~IsLowerCh(str[i])

\* str.islower: a cased character, and no uppercase one
IsLower(str) ==
    /\ \E i \in 1..Len(str) : IsCasedCh(str[i])
    /\ \A i \in 1..Len(str) : ~IsUpperCh(str[i])

\* str.istitle: uppercase characters follow uncased ones only, lowercase
\* characters follow cased ones only, and there is a cased character
IsTitle(str) ==
    /\ \E i \in 1..Len(str) : IsCasedCh(str[i])
    /\ \A i \in 1..Len(str) :
          LET previous_is_cased == i > 1 /\ IsCasedCh(str[i - 1])
          IN  /\ IsUpperCh(str[i]) => ~previous_is_cased
              /\ IsLowerCh(str[i]) => previous_is_cased

\* str.title: a character after a cased one is lowercased, any other is
\* uppercased
Title(str) ==
    [i \in 1..Len(str) |->
        IF i > 1 /\ IsCasedCh(str[i - 1]) THEN ToLowerCh(str[i])
        ELSE ToUpperCh(str[i])]

\* str.capitalize: the first character uppercased, the rest lowercased
Capitalize(str) ==
    [i \in 1..Len(str) |-> IF i = 1 THEN ToUpperCh(str[i])
                           ELSE ToLowerCh(str[i])]

\* FileUtilityManager.case_preserving_replace.replace_with_matching_case
replace_with_matching_case(original, new) ==
    IF IsUpper(original) THEN Upper(new)
    ELSE IF IsLower(original) THEN Lower(new)
    ELSE IF IsTitle(original) THEN Title(new)
    ELSE new

\* file_utils.case_preserving_replace.replace_with_matching_case
file_utils_replace_with_matching_case(matched_text, new) ==
    IF IsUpper(matched_text) THEN Upper(new)
    ELSE IF IsLower(matched_text) THEN Lower(new)
    ELSE IF /\ IsUpper(SubSeq(matched_text, 1, 1))
            /\ IsLower(SubSeq(matched_text, 2, Len(matched_text)))
         THEN Capitalize(new)
    ELSE new

\* re.escape(old_value) with re.IGNORECASE matches at position i
MatchesAt(old, str, i) ==
    /\ i + Len(old) - 1 <= Len(str)
    /\ \A k \in 1..Len(old) : ToLowerCh(str[i + k - 1]) = ToLowerCh(old[k])

\* old_value.lower() in name.lower()
ContainsToken(old, str) == \E i \in 1..Len(str) : MatchesAt(old, str, i)

\* re.sub: the matches are taken left to right without overlap, each one
\* replaced by what the callback returns for it (old_value is not empty)
RECURSIVE ReSub(_, _, _, _, _)
ReSub(old, new, str, i, which) ==
    IF i > Len(str) THEN <<>>
    ELSE IF MatchesAt(old, str, i)
         THEN LET m == SubSeq(str, i, i + Len(old) - 1)
              IN  (IF which = "file_utils"
                   THEN file_utils_replace_with_matching_case(m, new)
                   ELSE replace_with_matching_case(m, new))
                  \o ReSub(old, new, str, i + Len(old), which)
         ELSE <<str[i]>> \o ReSub(old, new, str, i + 1, which)

\* mutant: the casing is decided once, by the first match of the text
RECURSIVE ReSubWith(_, _, _, _)
ReSubWith(old, replacement, str, i) ==
    IF i > Len(str) THEN <<>>
    ELSE IF MatchesAt(old, str, i)
         THEN replacement \o ReSubWith(old, replacement, str, i + Len(old))
         ELSE <<str[i]>> \o ReSubWith(old, replacement, str, i + 1)

case_preserving_replace_PerText(old_value, new, str) ==
    IF ~ContainsToken(old_value, str) THEN str
    ELSE LET first == CHOOSE i \in 1..Len(str) :
                         /\ MatchesAt(old_value, str, i)
                         /\ \A j \in 1..(i - 1) : ~MatchesAt(old_value, str, j)
             m == SubSeq(str, first, first + Len(old_value) - 1)
         IN  ReSubWith(old_value, replace_with_matching_case(m, new), str, 1)

\* FileUtilityManager.case_preserving_replace(old_value, new_value, text)
case_preserving_replace(old_value, new, str) ==
    ReSub(old_value, new, str, 1, "file_utility_manager")

\* file_utils.case_preserving_replace(old_value, new_value, text)
file_utils_case_preserving_replace(old_value, new, str) ==
    ReSub(old_value, new, str, 1, "file_utils")

\* the template token and two instance names
TP_Blank == <<"T","P","_","B","l","a","n","k">>
MyProj   == <<"M","y","P","r","o","j">>
aB       == <<"a","B">>

\* the token in three casings, and text that is not the token
TP_BLANK == <<"T","P","_","B","L","A","N","K">>
tp_blank == <<"t","p","_","b","l","a","n","k">>
FillX    == <<"x">>
FillTP   == <<" ","T","P","_">>

PieceAlphabet == {TP_BLANK, tp_blank, TP_Blank, FillX, FillTP}
NewValues == {MyProj, aB}

RECURSIVE Concat(_)
Concat(ps) == IF ps = <<>> THEN <<>> ELSE Head(ps) \o Concat(Tail(ps))

InitReplace ==
    /\ \E n \in 0..MaxPieces : pieces \in SeqsOfLen(PieceAlphabet, n)
    /\ new_value \in NewValues
    /\ text = Concat(pieces)
    /\ result = <<>>
    /\ impl = "none"
    /\ MergeIdle
    /\ TreeIdle
    /\ InstallIdle
    /\ BuildIdle
    /\ ParIdle
    /\ MetaIdle
    /\ UpdIdle

\* FileUtilityManager.case_preserving_replace("TP_Blank", new_value, text)
ManagerReplace ==
    /\ impl = "none"
    /\ result' = case_preserving_replace(TP_Blank, new_value, text)
    /\ impl' = "file_utility_manager"
    /\ UNCHANGED <<pieces, new_value, text>>
    /\ UNCHANGED <<mergeVars, treeVars, installVars, buildVars, parVars, metaVars, updVars>>

\* file_utils.case_preserving_replace("TP_Blank", new_value, text)
UtilsReplace ==
    /\ impl = "none"
    /\ result' = file_utils_case_preserving_replace(TP_Blank, new_value, text)
    /\ impl' = "file_utils"
    /\ UNCHANGED <<pieces, new_value, text>>
    /\ UNCHANGED <<mergeVars, treeVars, installVars, buildVars, parVars, metaVars, updVars>>

NextReplace == ManagerReplace \/ UtilsReplace

SpecReplace == InitReplace /\ [][NextReplace]_vars

(***************************************************************************)
(* Claims about the case-preserving rewrite                                *)
(***************************************************************************)
\* what the rewrite table of the specification gives for one piece of text
RewrittenPiece(piece, new) ==
    IF piece = TP_BLANK
    THEN (IF new = MyProj THEN <<"M","Y","P","R","O","J">> ELSE <<"A","B">>)
    ELSE IF piece = tp_blank
    THEN (IF new = MyProj THEN <<"m","y","p","r","o","j">> ELSE <<"a","b">>)
    ELSE IF piece = TP_Blank
    THEN new
    ELSE piece

\* C5: in a text that holds the old token in several casings, both
\* case_preserving_replace functions replace every occurrence, each by the
\* new value in the casing of that occurrence alone (TP_BLANK -> MYPROJ,
\* tp_blank -> myproj, TP_Blank -> MyProj), and leave all other text as it was
C5_PerMatch ==
    impl # "none" =>
        result = Concat([i \in 1..Len(pieces) |->
                            RewrittenPiece(pieces[i], new_value)])

\* a text with the three casings and other text has been rewritten
C5_Witness ==
    /\ impl # "none"
    /\ new_value = MyProj
    /\ \E i, j, k \in 1..Len(pieces) :
          pieces[i] = TP_BLANK /\ pieces[j] = tp_blank /\ pieces[k] = TP_Blank
    /\ \E i \in 1..Len(pieces) : pieces[i] = FillTP
    /\ result # text

(***************************************************************************)
(* The classification of a matched span, over spans in more casings        *)
(***************************************************************************)
\* most pieces of a text whose spans are classified
MaxSpans == 2

Tp_blank == <<"T","p","_","b","l","a","n","k">>
Tp_Blank == <<"T","p","_","B","l","a","n","k">>

SpanAlphabet == {TP_BLANK, tp_blank, Tp_blank, Tp_Blank, TP_Blank, FillX}

InitClassify ==
    /\ \E n \in 0..MaxSpans : pieces \in SeqsOfLen(SpanAlphabet, n)
    /\ new_value \in NewValues
    /\ text = Concat(pieces)
    /\ result = <<>>
    /\ impl = "none"
    /\ MergeIdle
    /\ TreeIdle
    /\ InstallIdle
    /\ BuildIdle
    /\ ParIdle
    /\ MetaIdle
    /\ UpdIdle

SpecClassify == InitClassify /\ [][NextReplace]_vars

\* the new token in title case
TitleCased(new) ==
    IF new = MyProj THEN <<"M","y","p","r","o","j">> ELSE <<"A","b">>

\* what the classification rule gives for one piece of text: upper-cased for
\* an all-upper span, lower-cased for an all-lower span, title-cased for a
\* span whose first letter is upper-case and whose other letters are
\* lower-case, the new token as supplied for any other span
ClassifiedPiece(piece, new) ==
    IF piece = TP_BLANK
    THEN (IF new = MyProj THEN <<"M","Y","P","R","O","J">> ELSE <<"A","B">>)
    ELSE IF piece = tp_blank
    THEN (IF new = MyProj THEN <<"m","y","p","r","o","j">> ELSE <<"a","b">>)
    ELSE IF piece = Tp_blank
    THEN TitleCased(new)
    ELSE IF piece \in {Tp_Blank, TP_Blank}
    THEN new
    ELSE piece

\* C14: case_preserving_replace replaces every matched span by the new token
\* upper-cased when the span is all upper-case, lower-cased when it is all
\* lower-case, title-cased when its first letter is upper-case and all its
\* other letters are lower-case, and exactly as supplied for any other casing
C14_Classification ==
    impl # "none" =>
        result = Concat([i \in 1..Len(pieces) |->
                            ClassifiedPiece(pieces[i], new_value)])

(***************************************************************************)
(* The directory tree rewriter                                             *)
(*   FileUtilityManager.update_directory_structure and what it calls       *)
(* A tree is the set of the entries below the directory handed to          *)
(* update_directory_structure.  A path is the sequence of the names from   *)
(* that directory down to the entry; id tells which entry it was before.   *)
(***************************************************************************)
\* os.path.dirname, os.path.basename, os.path.join
Dirname(path) == SubSeq(path, 1, Len(path) - 1)
Basename(path) == path[Len(path)]
Join(directory, name) == Append(directory, name)

IsUnder(directory, path) ==
    /\ Len(path) > Len(directory)
    /\ SubSeq(path, 1, Len(directory)) = directory

\* os.path.exists
PathExists(fs, path) == \E e \in fs : e.path = path

EntryAt(fs, path) == CHOOSE e \in fs : e.path = path

\* os.rename(src, dst), dst not existing: the entry moves, and with a
\* directory everything below it
os_rename(fs, src, dst) ==
    { IF e.path = src \/ IsUnder(src, e.path)
      THEN [e EXCEPT !.path = dst \o SubSeq(e.path, Len(src) + 1, Len(e.path))]
      ELSE e : e \in fs }

\* mutant: os.rename onto an existing destination replaces it
os_rename_Replace(fs, src, dst) ==
    os_rename({e \in fs : e.path # dst /\ ~IsUnder(dst, e.path)}, src, dst)

\* os.path.splitext(path)[1]: from the last dot of the name on, empty when
\* the name has no dot or only leading dots
SplitExt(name) ==
    LET dots == {i \in 1..Len(name) :
                    /\ name[i] = "."
                    /\ \E j \in 1..(i - 1) : name[j] # "."}
    IN  IF dots = {} THEN <<>>
        ELSE SubSeq(name, CHOOSE i \in dots : \A j \in dots : j <= i, Len(name))

DotCpp      == <<".","c","p","p">>
DotH        == <<".","h">>
DotCs       == <<".","c","s">>
DotIni      == <<".","i","n","i">>
DotUproject == <<".","u","p","r","o","j","e","c","t">>

text_extensions == {DotCpp, DotH, DotCs, DotIni, DotUproject}

is_text_file(file_path) ==
    Lower(SplitExt(Basename(file_path))) \in text_extensions

\* update_file_content: a file that cannot be read is skipped, a file that
\* cannot be written is logged and left as it is
update_file_content(fs, file_path, old_value, new) ==
    LET e == EntryAt(fs, file_path)
        new_content == case_preserving_replace(old_value, new, e.content)
    IN  IF e.mode = "unreadable" THEN fs
        ELSE IF e.content # new_content /\ e.mode # "readonly"
             THEN (fs \ {e}) \cup {[e EXCEPT !.content = new_content]}
             ELSE fs

\* mutant: rename_file without the os.path.exists test
rename_file_Overwrite(fs, file_path, old_value, new) ==
    LET file_name == Basename(file_path)
    IN  IF ContainsToken(old_value, file_name)
        THEN os_rename_Replace(fs, file_path,
                 Join(Dirname(file_path),
                      case_preserving_replace(old_value, new, file_name)))
        ELSE fs

rename_file(fs, file_path, old_value, new) ==
    LET directory == Dirname(file_path)
        file_name == Basename(file_path)
    IN  IF ContainsToken(old_value, file_name)
        THEN LET new_file_name ==
                     case_preserving_replace(old_value, new, file_name)
                 new_file_path == Join(directory, new_file_name)
             IN  IF ~PathExists(fs, new_file_path)
                 THEN os_rename(fs, file_path, new_file_path)
                 ELSE fs
        ELSE fs

rename_directory(fs, directory, old_value, new) ==
    LET parent_dir == Dirname(directory)
        dir_name == Basename(directory)
    IN  IF ContainsToken(old_value, dir_name)
        THEN LET new_dir_name ==
                     case_preserving_replace(old_value, new, dir_name)
                 new_dir_path == Join(parent_dir, new_dir_name)
             IN  IF ~PathExists(fs, new_dir_path)
                 THEN os_rename(fs, directory, new_dir_path)
                 ELSE fs
        ELSE fs

\* the names the entries of a tree bear before the rewrite
Source    == <<"S","o","u","r","c","e">>
tP_Blank  == <<"t","P","_","B","l","a","n","k">>
Tp_blanK  == <<"T","p","_","b","l","a","n","K">>
DotBin    == <<".","b","i","n">>

Reverse(sq) == [i \in 1..Len(sq) |-> sq[Len(sq) + 1 - i]]

RECURSIVE Ascending(_)
Ascending(S) ==
    IF S = {} THEN <<>>
    ELSE LET least == CHOOSE x \in S : \A y \in S : x <= y
         IN  <<least>> \o Ascending(S \ {least})

\* os.scandir(top): the names of the entries of one kind right below top;
\* the order of a directory listing is the system's: the order in which the
\* entries were created (their ids), or its reverse
Scandir(fs, top, kind, order) ==
    LET listed == {c \in fs : /\ c.kind = kind
                              /\ Len(c.path) = Len(top) + 1
                              /\ IsUnder(top, c.path)}
        ids == Ascending({c.id : c \in listed})
        asc == [i \in 1..Len(ids) |->
                   Basename((CHOOSE c \in listed : c.id = ids[i]).path)]
    IN  IF order = "asc" THEN asc ELSE Reverse(asc)

\* for file_name in files: update the content of a text file, then rename
RECURSIVE FilesLoop(_, _, _, _, _, _)
FilesLoop(fs, root, files, i, old_value, new) ==
    IF i > Len(files) THEN fs
    ELSE LET file_path == Join(root, files[i])
             fs1 == IF is_text_file(file_path)
                    THEN update_file_content(fs, file_path, old_value, new)
                    ELSE fs
         IN  FilesLoop(rename_file(fs1, file_path, old_value, new),
                       root, files, i + 1, old_value, new)

\* for dir_name in dirs: rename the directory
RECURSIVE DirsLoop(_, _, _, _, _, _)
DirsLoop(fs, root, dirs, i, old_value, new) ==
    IF i > Len(dirs) THEN fs
    ELSE DirsLoop(rename_directory(fs, Join(root, dirs[i]), old_value, new),
                  root, dirs, i + 1, old_value, new)

\* mutant: os.walk(directory) top down: a directory is visited, and its
\* entries renamed, before the directories listed in it are walked
RECURSIVE WalkTopDown(_, _, _, _, _)
RECURSIVE WalkDirsTopDown(_, _, _, _, _, _, _)
WalkDirsTopDown(fs, top, dirs, i, order, old_value, new) ==
    IF i > Len(dirs) THEN fs
    ELSE WalkDirsTopDown(
             WalkTopDown(fs, Join(top, dirs[i]), order, old_value, new),
             top, dirs, i + 1, order, old_value, new)

WalkTopDown(fs, top, order, old_value, new) ==
    LET dirs == Scandir(fs, top, "dir", order)
        files == Scandir(fs, top, "file", order)
        fs1 == FilesLoop(fs, top, files, 1, old_value, new)
        fs2 == DirsLoop(fs1, top, dirs, 1, old_value, new)
    IN  WalkDirsTopDown(fs2, top, dirs, 1, order, old_value, new)

update_directory_structure_TopDown(fs, directory, old_value, new, order) ==
    WalkTopDown(fs, directory, order, old_value, new)

\* os.walk(directory, topdown=False) with the loop body of
\* update_directory_structure: top is listed, the directories listed in it
\* are walked, then top is visited
RECURSIVE Walk(_, _, _, _, _)
RECURSIVE WalkDirs(_, _, _, _, _, _, _)
WalkDirs(fs, top, dirs, i, order, old_value, new) ==
    IF i > Len(dirs) THEN fs
    ELSE WalkDirs(Walk(fs, Join(top, dirs[i]), order, old_value, new),
                  top, dirs, i + 1, order, old_value, new)

Walk(fs, top, order, old_value, new) ==
    LET dirs == Scandir(fs, top, "dir", order)
        files == Scandir(fs, top, "file", order)
        fs1 == WalkDirs(fs, top, dirs, 1, order, old_value, new)
        fs2 == FilesLoop(fs1, top, files, 1, old_value, new)
    IN  DirsLoop(fs2, top, dirs, 1, old_value, new)

\* mutant: the directory handed over is renamed as well
update_directory_structure_RenameTop(fs, directory, old_value, new, order) ==
    IF directory = <<>> THEN Walk(fs, directory, order, old_value, new)
    ELSE rename_directory(Walk(fs, directory, order, old_value, new),
                          directory, old_value, new)

\* FileUtilityManager.update_directory_structure(directory, old_value,
\* new_value); directory is a path inside the tree, <<>> the tree's top
update_directory_structure(fs, directory, old_value, new, order) ==
    Walk(fs, directory, order, old_value, new)

\* the entries a template tree may hold
Dir(id, path) ==
    [id |-> id, path |-> path, kind |-> "dir", content |-> <<>>,
     mode |-> "readwrite"]
File(id, path, content, mode) ==
    [id |-> id, path |-> path, kind |-> "file", content |-> content,
     mode |-> mode]

TemplateEntries ==
    { Dir(1, <<TP_Blank>>),
      File(2, <<TP_Blank, TP_Blank \o DotUproject>>, FillX \o TP_Blank,
           "readwrite"),
      File(3, <<TP_Blank, MyProj \o DotUproject>>, FillX, "readwrite"),
      File(4, <<TP_Blank, tp_blank \o DotBin>>, TP_Blank, "readwrite"),
      Dir(5, <<TP_Blank, tp_blank>>),
      File(6, <<TP_Blank, tp_blank, TP_BLANK \o DotH>>, tp_blank, "readwrite"),
      Dir(7, <<MyProj>>),
      File(13, <<MyProj, MyProj \o DotUproject>>, FillX, "readwrite"),
      Dir(8, <<Source>>),
      File(9, <<Source, TP_BLANK \o DotH>>, TP_BLANK, "readwrite"),
      File(10, <<Source, tP_Blank \o DotH>>, FillX, "readwrite"),
      File(11, <<Source, Tp_blanK \o DotH>>, FillX, "readwrite"),
      File(12, <<TP_Blank \o DotIni>>, TP_BLANK, "readwrite"),
      File(12, <<TP_Blank \o DotIni>>, TP_BLANK, "readonly"),
      File(12, <<TP_Blank \o DotIni>>, TP_BLANK, "unreadable") }

\* a tree: every entry lies in a directory of the tree, no two entries share
\* a path
IsTree(fs) ==
    /\ \A e \in fs : Len(e.path) > 1 =>
          \E d \in fs : d.kind = "dir" /\ d.path = Dirname(e.path)
    /\ \A e, f \in fs : e.path = f.path => e = f

InitTree ==
    /\ tree \in {fs \in SUBSET TemplateEntries : IsTree(fs)}
    /\ tree0 = tree
    /\ listing \in {"asc", "desc"}
    /\ walked = "none"
    /\ tokens = [old |-> TP_Blank, new |-> MyProj]
    /\ tree1 = {}
    /\ MergeIdle
    /\ ReplaceIdle
    /\ InstallIdle
    /\ BuildIdle
    /\ ParIdle
    /\ MetaIdle
    /\ UpdIdle

\* update_directory_structure(project_dir, "TP_Blank", project_name)
UpdateDirectoryStructure ==
    /\ walked = "none"
    /\ tree' = update_directory_structure(tree, <<>>, tokens.old, tokens.new,
                                           listing)
    /\ walked' = "ok"
    /\ UNCHANGED <<tree0, listing, tokens, tree1>>
    /\ UNCHANGED <<mergeVars, replaceVars, installVars, buildVars, parVars, metaVars, updVars>>

NextTree == UpdateDirectoryStructure

SpecTree == InitTree /\ [][NextTree]_vars

(***************************************************************************)
(* Claims about the directory tree rewrite                                 *)
(***************************************************************************)
MYPROJ == <<"M","Y","P","R","O","J">>
myproj == <<"m","y","p","r","o","j">>

\* the name the specification's rewrite table gives an entry
RewrittenName(name) ==
    CASE name = TP_Blank -> MyProj
      [] name = tp_blank -> myproj
      [] name = TP_Blank \o DotUproject -> MyProj \o DotUproject
      [] name = tp_blank \o DotBin -> myproj \o DotBin
      [] name = TP_BLANK \o DotH -> MYPROJ \o DotH
      [] name = tP_Blank \o DotH -> MyProj \o DotH
      [] name = Tp_blanK \o DotH -> MyProj \o DotH
      [] name = TP_Blank \o DotIni -> MyProj \o DotIni
      [] OTHER -> name

HasOldName(e) == RewrittenName(Basename(e.path)) # Basename(e.path)

Siblings(fs, e) == {s \in fs : s # e /\ Dirname(s.path) = Dirname(e.path)}

\* the entries next to e that bear, before the rewrite, the name e is to get
Occupants(fs, e) ==
    {s \in Siblings(fs, e) : Basename(s.path) = RewrittenName(Basename(e.path))}

\* the entries next to e that are to get the same name as e
Rivals(fs, e) ==
    {s \in Siblings(fs, e) :
        /\ HasOldName(s)
        /\ RewrittenName(Basename(s.path)) = RewrittenName(Basename(e.path))}

\* no rename finds its destination existing
NoDestinationExists(fs) ==
    \A e \in fs : HasOldName(e) => Occupants(fs, e) = {} /\ Rivals(fs, e) = {}

\* the directory an entry lies in, 0 for the top of the tree
ParentId(fs, e) ==
    IF Len(e.path) = 1 THEN 0 ELSE EntryAt(fs, Dirname(e.path)).id

NameAfter(e) == Basename((CHOOSE e1 \in tree : e1.id = e.id).path)

\* entry e of the old tree is in the new tree under its old name, in the
\* directory it was in
Kept(e) ==
    \E e1 \in tree :
        /\ e1.id = e.id /\ e1.kind = e.kind
        /\ Basename(e1.path) = Basename(e.path)
        /\ ParentId(tree, e1) = ParentId(tree0, e)

Shape(fs) == {[id |-> e.id, kind |-> e.kind, path |-> e.path] : e \in fs}

\* C6: when no rename destination exists beforehand, the tree after
\* update_directory_structure is the tree before it with every name below the
\* top rewritten: every entry lies in its (renamed) directory, the number of
\* entries is the same, and no path with an old name is left
C6_BottomUp ==
    (walked = "ok" /\ NoDestinationExists(tree0)) =>
        /\ Shape(tree) =
              {[id |-> e.id, kind |-> e.kind,
                path |-> [i \in 1..Len(e.path) |-> RewrittenName(e.path[i])]] :
                  e \in tree0}
        /\ Cardinality(tree) = Cardinality(tree0)
        /\ \A e \in tree : \A i \in 1..Len(e.path) :
              RewrittenName(e.path[i]) = e.path[i]

\* a directory TP_Blank holding TP_Blank.uproject and a directory tp_blank
\* holding TP_BLANK.h has been rewritten
C6_Witness ==
    /\ walked = "ok" /\ NoDestinationExists(tree0)
    /\ {1, 2, 5, 6} \subseteq {e.id : e \in tree0}
    /\ \E e \in tree : e.id = 2 /\ e.path = <<MyProj, MyProj \o DotUproject>>
    /\ \E e \in tree : e.id = 6 /\ e.path = <<MyProj, myproj, MYPROJ \o DotH>>

\* C8: an entry whose rename destination exists keeps its name and its
\* directory, the entry at the destination stays as it was, every entry
\* whose destination is free is renamed all the same, and
\* update_directory_structure returns
C8_CollisionSkip ==
    walked = "ok" =>
        /\ Cardinality(tree) = Cardinality(tree0)
        /\ \A e \in tree0 : HasOldName(e) =>
              /\ Occupants(tree0, e) # {} =>
                    /\ Kept(e)
                    /\ \A s \in Occupants(tree0, e) :
                          /\ Kept(s)
                          /\ \E s1 \in tree :
                                /\ s1.id = s.id /\ s1.content = s.content
                                /\ {c.id : c \in {x \in tree :
                                              Dirname(x.path) = s1.path}}
                                   = {c.id : c \in {x \in tree0 :
                                              Dirname(x.path) = s.path}}
              /\ (Occupants(tree0, e) = {} /\ Rivals(tree0, e) = {}) =>
                    NameAfter(e) = RewrittenName(Basename(e.path))
              /\ (Occupants(tree0, e) = {} /\ Rivals(tree0, e) # {}) =>
                    \A r \in Rivals(tree0, e) :
                       \/ /\ NameAfter(e) = RewrittenName(Basename(e.path))
                          /\ Kept(r)
                       \/ /\ NameAfter(r) = RewrittenName(Basename(e.path))
                          /\ Kept(e)

\* TP_Blank/TP_Blank.uproject found TP_Blank/MyProj.uproject in its way and
\* the directory TP_Blank found the directory MyProj in its way, while
\* TP_Blank.ini was renamed
C8_Witness ==
    /\ walked = "ok"
    /\ {1, 2, 3, 7, 12} \subseteq {e.id : e \in tree0}
    /\ \E e \in tree : e.id = 2 /\ e.path = <<TP_Blank, TP_Blank \o DotUproject>>
    /\ \E e \in tree : e.id = 12 /\ e.path = <<MyProj \o DotIni>>

\* the text files of a tree whose rewritten content cannot be written
WriteFailures(fs, old_value) ==
    {e \in fs : /\ e.kind = "file"
                /\ is_text_file(e.path)
                /\ e.mode = "readonly"
                /\ ContainsToken(old_value, e.content)}

\* C21: a write failure while writing the rewritten content of a text file
\* aborts update_directory_structure and is raised to the caller instead of
\* being skipped: the call does not return normally from a tree that holds
\* such a file
C21_WriteFailureRaised ==
    walked = "ok" => WriteFailures(tree0, tokens.old) = {}

(***************************************************************************)
(* Running the rewriter twice                                              *)
(*   FileUtilityManager.update_directory_structure on its own output, for  *)
(*   the project names a user may choose                                   *)
(***************************************************************************)
BlankName == <<"B","l","a","n","k">>
TP_Blank2 == TP_Blank \o <<"2">>

\* old_value is always "TP_Blank"; new_value is the project's name
TokenPairs ==
    { [old |-> TP_Blank, new |-> MyProj],
      [old |-> TP_Blank, new |-> BlankName],
      [old |-> TP_Blank, new |-> TP_Blank2] }

RerunEntries ==
    { Dir(1, <<TP_Blank>>),
      File(2, <<TP_Blank, TP_Blank \o DotUproject>>, FillTP \o TP_Blank,
           "readwrite"),
      File(3, <<TP_Blank, MyProj \o DotUproject>>, FillX, "readwrite"),
      Dir(4, <<MyProj>>),
      File(5, <<FillTP \o TP_Blank \o DotH>>, tp_blank, "readwrite"),
      File(6, <<TP_Blank \o DotIni>>, TP_BLANK, "readonly"),
      File(7, <<tp_blank \o DotBin>>, TP_Blank, "readwrite") }

InitRerun ==
    /\ tree \in {fs \in SUBSET RerunEntries : IsTree(fs)}
    /\ tree0 = tree
    /\ listing \in {"asc", "desc"}
    /\ walked = "none"
    /\ tokens \in TokenPairs
    /\ tree1 = {}
    /\ MergeIdle
    /\ ReplaceIdle
    /\ InstallIdle
    /\ BuildIdle
    /\ ParIdle
    /\ MetaIdle
    /\ UpdIdle

\* update_directory_structure again, on the tree the first run produced
Rerun ==
    /\ walked = "ok"
    /\ tree1' = tree
    /\ tree' = update_directory_structure(tree, <<>>, tokens.old, tokens.new,
                                           listing)
    /\ walked' = "again"
    /\ UNCHANGED <<tree0, listing, tokens>>
    /\ UNCHANGED <<mergeVars, replaceVars, installVars, buildVars, parVars, metaVars, updVars>>

NextRerun ==
    \/ UpdateDirectoryStructure
    \/ Rerun

SpecRerun == InitRerun /\ [][NextRerun]_vars

\* C15: for every tree and every pair of non-empty old and new tokens, a
\* second run of update_directory_structure on the tree the first run
\* produced changes no file content and renames no file or directory: the
\* tree after the second run is the tree before it
C15_Idempotent ==
    walked = "again" => tree = tree1

(***************************************************************************)
(* The archive installer                                                   *)
(*   DownloadManager.extract_plugin_zip, extract_and_install_plugin        *)
(* plugins holds the entries below plugins_dir; ver tells which archive a  *)
(* file came from.                                                         *)
(***************************************************************************)
\* most installs in a behaviour, most files held open at a time
MaxInstalls == 2
MaxLocked == 1

Temp_Extract_Plugin   == <<"T","e","m","p","_","E","x","t","r","a","c","t","_","P","l","u","g","i","n">>
Temp_Extracted_Plugin == <<"T","e","m","p","_","E","x","t","r","a","c","t","e","d","_","P","l","u","g","i","n">>
DotUplugin == <<".","u","p","l","u","g","i","n">>
Convai     == <<"C","o","n","v","a","i">>
Wrap       == <<"W","r","a","p">>
ConvaiMain == Convai \o <<"-","m","a","i","n">>
OldTxt     == <<"O","l","d",".","t","x","t">>
NewTxt     == <<"N","e","w",".","t","x","t">>
OtherTxt   == <<"O","t","h","e","r",".","t","x","t">>

\* str.endswith
EndsWith(name, suffix) ==
    /\ Len(name) >= Len(suffix)
    /\ SubSeq(name, Len(name) - Len(suffix) + 1, Len(name)) = suffix

ADir(path) == [path |-> path, kind |-> "dir", ver |-> 0]
AFile(path, ver) == [path |-> path, kind |-> "file", ver |-> ver]

\* archives: entries is what extractall writes, unit what the folder of the
\* descriptor holds
PluginArchive(ver, extra) ==
    [kind |-> "zip", ver |-> ver,
     entries |-> {ADir(<<Convai>>),
                  AFile(<<Convai, Convai \o DotUplugin>>, ver),
                  AFile(<<Convai, extra>>, ver)},
     unit |-> {AFile(<<Convai \o DotUplugin>>, ver), AFile(<<extra>>, ver)}]

WrappedArchive ==
    [kind |-> "zip", ver |-> 3,
     entries |-> {ADir(<<Wrap>>), ADir(<<Wrap, Convai>>),
                  AFile(<<Wrap, Convai, Convai \o DotUplugin>>, 3),
                  AFile(<<Wrap, Convai, NewTxt>>, 3)},
     unit |-> {AFile(<<Convai \o DotUplugin>>, 3), AFile(<<NewTxt>>, 3)}]

RootArchive ==
    [kind |-> "zip", ver |-> 4,
     entries |-> {AFile(<<Convai \o DotUplugin>>, 4), AFile(<<NewTxt>>, 4)},
     unit |-> {AFile(<<Convai \o DotUplugin>>, 4), AFile(<<NewTxt>>, 4)}]

\* the folder of the descriptor bears another name than the descriptor
BranchArchive ==
    [kind |-> "zip", ver |-> 8,
     entries |-> {ADir(<<ConvaiMain>>),
                  AFile(<<ConvaiMain, Convai \o DotUplugin>>, 8),
                  AFile(<<ConvaiMain, NewTxt>>, 8)},
     unit |-> {AFile(<<Convai \o DotUplugin>>, 8), AFile(<<NewTxt>>, 8)}]

NoDescriptorArchive ==
    [kind |-> "zip", ver |-> 5,
     entries |-> {ADir(<<Convai>>), AFile(<<Convai, OtherTxt>>, 5)},
     unit |-> {}]

BadZip == [kind |-> "bad", ver |-> 6, entries |-> {}, unit |-> {}]
MissingZip == [kind |-> "missing", ver |-> 7, entries |-> {}, unit |-> {}]

Archives ==
    {PluginArchive(1, OldTxt), PluginArchive(2, NewTxt), WrappedArchive,
     RootArchive, BranchArchive, NoDescriptorArchive, BadZip, MissingZip}

Subtree(fs, path) == {e \in fs : e.path = path \/ IsUnder(path, e.path)}

\* shutil.rmtree(path, ignore_errors=True): what cannot be deleted stays,
\* with the directories above it
rmtree_ignore_errors(fs, path, lk) ==
    {e \in fs :
        \/ e \notin Subtree(fs, path)
        \/ e.path \in lk
        \/ \E l \in lk : IsUnder(e.path, l)}

\* shutil.rmtree(path): the outcomes, as [fs, raised]; with a file that
\* cannot be deleted it raises after deleting some of the others
rmtree(fs, path, lk) ==
    IF \A e \in Subtree(fs, path) : e.path \notin lk
    THEN {[fs |-> fs \ Subtree(fs, path), raised |-> FALSE]}
    ELSE LET stays == rmtree_ignore_errors(fs, path, lk)
         IN  {[fs |-> stays \cup more, raised |-> TRUE] :
                more \in {r \in SUBSET (fs \ stays) :
                            \A e \in r : \A d \in fs \ stays :
                               IsUnder(d.path, e.path) => d \in r}}

\* os.makedirs(path, exist_ok=True), path right below plugins_dir
makedirs(fs, path) == IF PathExists(fs, path) THEN fs ELSE fs \cup {ADir(path)}

\* ZipFile.extractall(dest): directories are made as needed, a file that is
\* there already is written anew
extractall(fs, archive, dest) ==
    LET written == {[e EXCEPT !.path = dest \o e.path] : e \in archive.entries}
    IN  {e \in fs : \A w \in written : w.path # e.path} \cup written

\* os.walk(temp_dir), top down, stopped at the first directory that holds a
\* file ending in ".uplugin": a directory is visited before the directories
\* below it, directories side by side in the order the system lists them
HoldsDescriptor(fs, directory) ==
    \E f \in fs : /\ f.kind = "file"
                  /\ Dirname(f.path) = directory
                  /\ EndsWith(Basename(f.path), DotUplugin)

PluginFolders(fs, temp_dir) ==
    LET walked_dirs == {d.path : d \in {e \in Subtree(fs, temp_dir) :
                                           e.kind = "dir"}}
    IN  {d \in walked_dirs :
            /\ HoldsDescriptor(fs, d)
            /\ \A a \in walked_dirs : IsUnder(a, d) => ~HoldsDescriptor(fs, a)}

\* shutil.move(src, dst) on one file system, as [fs, raised]: into dst when
\* dst is a directory that exists, to dst otherwise
shutil_move(fs, src, dst) ==
    IF ~PathExists(fs, src) THEN [fs |-> fs, raised |-> TRUE]
    ELSE IF PathExists(fs, dst) /\ EntryAt(fs, dst).kind = "dir"
    THEN IF src = dst THEN [fs |-> fs, raised |-> FALSE]
         ELSE IF PathExists(fs, Join(dst, Basename(src)))
         THEN [fs |-> fs, raised |-> TRUE]
         ELSE [fs |-> os_rename(fs, src, Join(dst, Basename(src))),
               raised |-> FALSE]
    ELSE [fs |-> os_rename(fs, src, dst), raised |-> FALSE]

\* the rest of extract_plugin_zip once plugin_folder is found
FinishPluginZip(fs, temp_dir, plugin_folder, lk) ==
    LET final_plugin_path == <<Basename(plugin_folder)>>
        fs1 == IF PathExists(fs, final_plugin_path)
               THEN rmtree_ignore_errors(fs, final_plugin_path, lk)
               ELSE fs
        moved == shutil_move(fs1, plugin_folder, final_plugin_path)
    IN  IF moved.raised
        THEN [fs |-> moved.fs, ret |-> "raised", path |-> <<>>]
        ELSE [fs |-> rmtree_ignore_errors(moved.fs, temp_dir, lk),
              ret |-> "installed", path |-> final_plugin_path]

\* DownloadManager.extract_plugin_zip(zip_path, project_dir): its outcomes
extract_plugin_zip(fs, archive, lk) ==
    LET temp_dir == <<Temp_Extract_Plugin>>
        fs1 == IF PathExists(fs, temp_dir)
               THEN rmtree_ignore_errors(fs, temp_dir, lk)
               ELSE fs
        fs2 == makedirs(fs1, temp_dir)
        fs3 == extractall(fs2, archive, temp_dir)
    IN  IF archive.kind # "zip"
        THEN {[fs |-> fs2, ret |-> "raised", path |-> <<>>]}
        ELSE IF PluginFolders(fs3, temp_dir) = {}
        THEN {[fs |-> rmtree_ignore_errors(fs3, temp_dir, lk),
               ret |-> "None", path |-> <<>>]}
        ELSE {FinishPluginZip(fs3, temp_dir, plugin_folder, lk) :
                 plugin_folder \in PluginFolders(fs3, temp_dir)}

\* the rest of extract_and_install_plugin once plugin_folder is found
FinishInstallPlugin(fs, temp_extraction_path, plugin_folder, lk) ==
    LET final_plugin_path == <<Basename(plugin_folder)>>
        removed == IF PathExists(fs, final_plugin_path)
                   THEN rmtree(fs, final_plugin_path, lk)
                   ELSE {[fs |-> fs, raised |-> FALSE]}
    IN  {IF rm.raised
         THEN [fs |-> rm.fs, ret |-> "raised", path |-> <<>>]
         ELSE LET moved == shutil_move(rm.fs, plugin_folder, final_plugin_path)
              IN  IF moved.raised
                  THEN [fs |-> moved.fs, ret |-> "raised", path |-> <<>>]
                  ELSE [fs |-> rmtree_ignore_errors(moved.fs,
                                    temp_extraction_path, lk),
                        ret |-> "installed", path |-> final_plugin_path] :
           rm \in removed}

\* DownloadManager.extract_and_install_plugin(zip_path, plugins_dir): its
\* outcomes
extract_and_install_plugin(fs, archive, lk) ==
    LET temp_extraction_path == <<Temp_Extracted_Plugin>>
        fs1 == makedirs(fs, temp_extraction_path)
        fs2 == extractall(fs1, archive, temp_extraction_path)
    IN  IF archive.kind = "missing"
        THEN {[fs |-> fs, ret |-> "None", path |-> <<>>]}
        ELSE IF archive.kind = "bad"
        THEN {[fs |-> fs1, ret |-> "None", path |-> <<>>]}
        ELSE IF PluginFolders(fs2, temp_extraction_path) = {}
        THEN {[fs |-> fs2, ret |-> "None", path |-> <<>>]}
        ELSE UNION {FinishInstallPlugin(fs2, temp_extraction_path,
                                        plugin_folder, lk) :
                      plugin_folder \in PluginFolders(fs2, temp_extraction_path)}

\* plugins_dir is empty, or holds the unit of an earlier installation
InstalledUnit ==
    {ADir(<<Convai>>), AFile(<<Convai, Convai \o DotUplugin>>, 1),
     AFile(<<Convai, OldTxt>>, 1)}

InitInstall ==
    /\ plugins \in {{}, InstalledUnit}
    /\ plugins_before = plugins
    /\ locked = {}
    /\ latest = [kind |-> "none"]
    /\ ret = "none"
    /\ ret_path = <<>>
    /\ installs = 0
    /\ clean = TRUE
    /\ MergeIdle
    /\ ReplaceIdle
    /\ TreeIdle
    /\ BuildIdle
    /\ ParIdle
    /\ MetaIdle
    /\ UpdIdle

Installed(archive, o) ==
    /\ plugins_before' = plugins
    /\ plugins' = o.fs
    /\ ret' = o.ret
    /\ ret_path' = o.path
    /\ latest' = archive
    /\ installs' = installs + 1
    /\ clean' = (clean /\ o.ret = "installed")
    /\ UNCHANGED locked
    /\ UNCHANGED <<mergeVars, replaceVars, treeVars, buildVars, parVars, metaVars, updVars>>

ExtractPluginZip ==
    /\ installs < MaxInstalls
    /\ \E archive \in Archives :
          \E o \in extract_plugin_zip(plugins, archive, locked) :
             Installed(archive, o)

ExtractAndInstallPlugin ==
    /\ installs < MaxInstalls
    /\ \E archive \in Archives :
          \E o \in extract_and_install_plugin(plugins, archive, locked) :
             Installed(archive, o)

\* another process (the editor with the plugin loaded) opens a file of an
\* installed unit, which then cannot be deleted, or closes it again
EditorOpens ==
    /\ Cardinality(locked) < MaxLocked
    /\ installs < MaxInstalls
    /\ \E f \in plugins :
          /\ f.kind = "file"
          /\ f.path \notin locked
          /\ f.path[1] \notin {Temp_Extract_Plugin, Temp_Extracted_Plugin}
          /\ locked' = locked \cup {f.path}
    /\ UNCHANGED <<plugins, plugins_before, latest, ret, ret_path, installs,
                   clean>>
    /\ UNCHANGED <<mergeVars, replaceVars, treeVars, buildVars, parVars, metaVars, updVars>>

EditorCloses ==
    /\ \E l \in locked : locked' = locked \ {l}
    /\ UNCHANGED <<plugins, plugins_before, latest, ret, ret_path, installs,
                   clean>>
    /\ UNCHANGED <<mergeVars, replaceVars, treeVars, buildVars, parVars, metaVars, updVars>>

NextInstall ==
    \/ ExtractPluginZip
    \/ ExtractAndInstallPlugin
    \/ EditorOpens
    \/ EditorCloses

SpecInstall == InitInstall /\ [][NextInstall]_vars

(***************************************************************************)
(* Claims about the archive installer                                      *)
(***************************************************************************)
\* what lies below path, with the paths taken from path on
Below(fs, path) ==
    {[e EXCEPT !.path = SubSeq(e.path, Len(path) + 1, Len(e.path))] :
        e \in {x \in fs : IsUnder(path, x.path)}}

\* C7: an install that finds the directory of the unit existing and returns
\* a path leaves at that path one directory whose contents are exactly those
\* of the latest archive's unit: no file of the earlier installation, and
\* the new unit not inside the old directory
C7_InstallReplace ==
    (ret = "installed" /\ PathExists(plugins_before, ret_path)) =>
        /\ PathExists(plugins, ret_path)
        /\ Below(plugins, ret_path) = latest.unit

\* the base names, without the extension, of the descriptor files of an
\* archive
DescriptorNames(archive) ==
    {SubSeq(Basename(f.path), 1, Len(Basename(f.path)) - Len(DotUplugin)) :
        f \in {e \in archive.entries :
                 e.kind = "file" /\ EndsWith(Basename(e.path), DotUplugin)}}

\* C16: the directory into which an archive is installed is the destination
\* root joined with the base name of the descriptor file without its
\* extension, whatever the name of the directory that encloses the
\* descriptor inside the archive
C16_UnitName ==
    ret = "installed" => \E name \in DescriptorNames(latest) : ret_path = <<name>>

\* the directories right below the destination root that hold, at any
\* depth, a descriptor file with the base name given
UnitsNamed(fs, name) ==
    {d \in fs : /\ d.kind = "dir"
                /\ Len(d.path) = 1
                /\ \E f \in fs : /\ f.kind = "file"
                                  /\ IsUnder(d.path, f.path)
                                  /\ Basename(f.path) = name \o DotUplugin}

\* C17: after any sequence of successful installs into one destination
\* root, for every descriptor base name at most one directory under the
\* root contains a descriptor with that name, also when successive archives
\* enclose the descriptor in differently named folders
C17_OneUnitPerName ==
    clean => \A archive \in Archives : \A name \in DescriptorNames(archive) :
                Cardinality(UnitsNamed(plugins, name)) <= 1

\* the descriptor of the archive lies directly in the extraction root
DescriptorAtRoot(archive) ==
    \E f \in archive.entries : /\ f.kind = "file"
                                /\ Len(f.path) = 1
                                /\ EndsWith(Basename(f.path), DotUplugin)

\* C18: when the descriptor file lies directly in the temporary extraction
\* root, the install succeeds and the final install directory is newly
\* created and holds all the contents of the extraction root; otherwise the
\* directory that contains the descriptor is moved as a whole to the final
\* path.  Stated for the first install into an empty destination root, with
\* no file held open.
C18_RootDescriptor ==
    (installs = 1 /\ plugins_before = {} /\ latest.kind = "zip"
                  /\ DescriptorNames(latest) # {}) =>
        /\ ret = "installed"
        /\ PathExists(plugins, ret_path)
        /\ Below(plugins, ret_path) = latest.unit
        /\ DescriptorAtRoot(latest) =>
              ret_path \notin {<<Temp_Extract_Plugin>>, <<Temp_Extracted_Plugin>>}

\* C19: on every exit path of an archive install (success, corrupt archive,
\* missing descriptor, failure while deleting the old unit or moving the new
\* one) the temporary extraction directory no longer exists when the call
\* returns or raises
C19_TempCleanup ==
    installs > 0 =>
        /\ ~PathExists(plugins, <<Temp_Extract_Plugin>>)
        /\ ~PathExists(plugins, <<Temp_Extracted_Plugin>>)

\* the installed unit directories of the destination root and their
\* contents: everything but the temporary extraction directories
InstalledUnits(fs) ==
    {e \in fs : e.path[1] \notin {Temp_Extract_Plugin, Temp_Extracted_Plugin}}

\* C20: when the archive is corrupt or contains no descriptor file, the
\* install reports failure (an error or a None result) and the installed
\* unit directories under the destination root, and their contents, are the
\* same as before the call; a previously installed unit is not deleted
C20_FailedInstall ==
    (latest.kind = "bad" \/ (latest.kind = "zip" /\ DescriptorNames(latest) = {}))
        => /\ ret \in {"None", "raised"}
           /\ InstalledUnits(plugins) = InstalledUnits(plugins_before)

\* C30: each install starts from a clean temporary directory.  An install
\* that returns a path has located a descriptor of the archive being
\* installed, and every file below that path was written from this archive
\* or stood below that path before the call: none is a file that an earlier
\* call left in the temporary extraction directory.
C30_CleanTemp ==
    ret = "installed" =>
        /\ DescriptorNames(latest) # {}
        /\ \A e \in Below(plugins, ret_path) :
              e.kind = "file" =>
                 \/ e.ver = latest.ver
                 \/ e \in Below(plugins_before, ret_path)

(***************************************************************************)
(* The structure copy                                                      *)
(*   UnrealEngineManager.build_project_structure                           *)
(* disk holds the engine's Templates directory and the project             *)
(* directories, as entries [id, path, kind, content, mode].                *)
(***************************************************************************)
\* len(self.project_name) > 20
MaxNameLen == 20

Templates == <<"T","e","m","p","l","a","t","e","s">>
ContentDir == <<"C","o","n","t","e","n","t">>
LongName == MyProj \o MyProj \o MyProj \o <<"X","Y","Z">>
ProjectNames == {MyProj, TP_Blank2, LongName}

\* os.path.join(self.ue_dir, "Templates", "TP_Blank")
TemplateDir == <<Templates, TP_Blank>>

\* a .uproject file is a JSON object; its EngineAssociation is the digit
\* before the closing brace
JsonTP == <<"{">> \o TP_Blank \o <<"}">>
EngineDigits == {"4", "5"}

\* json.load: the text parses when it is an object
IsJson(content) ==
    /\ Len(content) >= 2
    /\ content[1] = "{"
    /\ content[Len(content)] = "}"

\* data['EngineAssociation'] = engine_version; json.dump(data)
SetEngineAssociation(content, engine_version) ==
    LET body == SubSeq(content, 2, Len(content) - 1)
        kept == IF body # <<>> /\ body[Len(body)] \in EngineDigits
                THEN SubSeq(body, 1, Len(body) - 1)
                ELSE body
    IN  <<"{">> \o kept \o <<engine_version, "}">>

\* UnrealEngineManager._set_engine_version(uproject_file, engine_version),
\* as [fs, ok]: every exception is logged and dropped
set_engine_version(fs, uproject_file, engine_version) ==
    IF ~PathExists(fs, uproject_file)
    THEN [fs |-> fs, ok |-> FALSE]
    ELSE LET e == EntryAt(fs, uproject_file)
         IN  IF e.kind # "file" \/ ~IsJson(e.content) \/ e.mode = "readonly"
             THEN [fs |-> fs, ok |-> FALSE]
             ELSE [fs |-> (fs \ {e}) \cup
                            {[e EXCEPT !.content =
                                 SetEngineAssociation(e.content,
                                                      engine_version)]},
                   ok |-> TRUE]

\* the greatest id on the disk: what is created later is listed later
MaxId(fs) == IF fs = {} THEN 0
             ELSE CHOOSE n \in {e.id : e \in fs} : \A e \in fs : e.id <= n

\* shutil.copytree(src, dst), dst not existing: the entries of src, with
\* their permission bits, under dst
copytree(fs, src, dst) ==
    fs \cup {[e EXCEPT !.path = dst \o SubSeq(e.path, Len(src) + 1,
                                               Len(e.path)),
                       !.id = MaxId(fs) + e.id] :
               e \in {x \in fs : x.path = src \/ IsUnder(src, x.path)}}

\* os.makedirs(path, exist_ok=True) below an existing directory
makedirs_exist_ok(fs, path) ==
    IF PathExists(fs, path) THEN fs
    ELSE fs \cup {[id |-> MaxId(fs) + 1, path |-> path, kind |-> "dir",
                   content |-> <<>>, mode |-> "readwrite"]}

\* the text files below directory whose rewritten content cannot be
\* written: update_file_content logs the error and goes on
RewriteErrors(fs, directory, old_value) ==
    {e \in fs : /\ IsUnder(directory, e.path)
                /\ e.kind = "file"
                /\ is_text_file(e.path)
                /\ e.mode = "readonly"
                /\ ContainsToken(old_value, e.content)}

\* mutant: build_project_structure without the os.path.exists test
build_project_structure_NoExistsTest(fs, name, engine_version, order) ==
    LET project_dir == <<name>>
    IN  IF Len(name) > MaxNameLen
        THEN [fs |-> fs, ret |-> "False", stages |-> <<>>]
        ELSE LET fs1 == copytree(fs, TemplateDir, project_dir)
                 fs2 == makedirs_exist_ok(fs1, Join(project_dir, ContentDir))
             IN  [fs |-> fs2, ret |-> "True", stages |-> <<>>]

\* UnrealEngineManager.build_project_structure(), as [fs, ret, stages];
\* self.project_dir is the directory named project_name at the top of
\* the disk
build_project_structure(fs, name, engine_version, order) ==
    LET project_dir == <<name>>
    IN  IF Len(name) > MaxNameLen
        THEN [fs |-> fs, ret |-> "False", stages |-> <<>>]
        ELSE IF PathExists(fs, project_dir)
        THEN [fs |-> fs, ret |-> "False", stages |-> <<>>]
        ELSE LET fs1 == copytree(fs, TemplateDir, project_dir)
                 fs2 == makedirs_exist_ok(fs1, Join(project_dir, ContentDir))
                 fs3 == update_directory_structure(fs2, project_dir,
                                                   TP_Blank, name, order)
                 set == set_engine_version(
                            fs3, Join(project_dir, name \o DotUproject),
                            engine_version)
             IN  [fs |-> set.fs, ret |-> "True",
                  stages |->
                    << [stage |-> "copy", ok |-> TRUE],
                       [stage |-> "rewrite",
                        ok |-> RewriteErrors(fs2, project_dir, TP_Blank) = {}],
                       [stage |-> "engine", ok |-> set.ok] >>]

\* str.splitlines() of a text whose lines end in "\n"
RECURSIVE SplitLines(_)
SplitLines(content) ==
    IF content = <<>> THEN <<>>
    ELSE LET n == IndexOf(content, "\n")
         IN  IF n = 0 THEN <<content>>
             ELSE <<SubSeq(content, 1, n - 1)>>
                  \o SplitLines(SubSeq(content, n + 1, Len(content)))

\* f.write(f"{line}\n") for every line
RECURSIVE JoinLines(_)
JoinLines(ls) ==
    IF ls = <<>> THEN <<>>
    ELSE Head(ls) \o <<"\n">> \o JoinLines(Tail(ls))

ConfigDir == <<"C","o","n","f","i","g">>
DefaultInputIni == <<"D","e","f","a","u","l","t","I","n","p","u","t">> \o DotIni

\* the settings _update_input_ini asks for
InputSettings == {<<HdrA, X2>>, <<HdrB, PXf>>}

\* UnrealEngineManager._merge_ini_file(target_path, desired_content, ...) on
\* the disk, the directory of target_path existing
merge_ini_file(fs, target_path, desired_content) ==
    IF PathExists(fs, target_path)
    THEN LET e == EntryAt(fs, target_path)
         IN  (fs \ {e}) \cup
             {[e EXCEPT !.content =
                  JoinLines(MergedLines(SplitLines(e.content),
                                        desired_content))]}
    ELSE fs \cup {[id |-> MaxId(fs) + 1, path |-> target_path,
                   kind |-> "file",
                   content |-> JoinLines(MergedLines(<<>>, desired_content)),
                   mode |-> "readwrite"]}

\* UnrealEngineManager._update_input_ini(project_dir)
update_input_ini(fs, project_dir, desired_content) ==
    LET config_dir == Join(project_dir, ConfigDir)
    IN  merge_ini_file(makedirs_exist_ok(fs, config_dir),
                       Join(config_dir, DefaultInputIni), desired_content)

\* what the disk may hold before the build: the template, whole or in
\* part, a directory where the project is to go, another project
TemplateRoot ==
    {Dir(1, <<Templates>>), Dir(2, TemplateDir)}

TemplateParts ==
    { File(3, Join(TemplateDir, TP_Blank \o DotUproject), JsonTP, "readwrite"),
      File(3, Join(TemplateDir, TP_Blank \o DotUproject), JsonTP, "readonly"),
      File(3, Join(TemplateDir, TP_Blank \o DotUproject), TP_Blank, "readwrite"),
      Dir(4, Join(TemplateDir, Source)),
      File(5, Join(Join(TemplateDir, Source), TP_Blank \o DotH), tp_blank,
           "readwrite"),
      Dir(6, Join(TemplateDir, ContentDir)),
      Dir(11, Join(TemplateDir, ConfigDir)),
      File(12, Join(Join(TemplateDir, ConfigDir), DefaultInputIni),
           JoinLines(<<HdrA, X1>>), "readwrite") }

OtherProject ==
    {Dir(7, <<TP_Blank>>),
     File(8, <<TP_Blank, TP_Blank \o DotUproject>>, JsonTP, "readwrite")}

ExistingProject(name) ==
    {Dir(9, <<name>>), File(10, <<name, OldTxt>>, TP_Blank, "readwrite")}

InitBuild ==
    /\ project_name \in ProjectNames
    /\ \E parts \in SUBSET TemplateParts :
       \E other \in {{}, OtherProject} :
       \E existing \in {{}, ExistingProject(project_name)} :
          /\ IsTree(TemplateRoot \cup parts)
          /\ disk = TemplateRoot \cup parts \cup other \cup existing
    /\ disk0 = disk
    /\ built = "none"
    /\ stages = <<>>
    /\ listing \in {"asc", "desc"}
    /\ tree = {}
    /\ tree0 = {}
    /\ walked = "none"
    /\ tokens = [old |-> <<>>, new |-> <<>>]
    /\ tree1 = {}
    /\ MergeIdle
    /\ ReplaceIdle
    /\ InstallIdle
    /\ ParIdle
    /\ MetaIdle
    /\ UpdIdle

BuildProjectStructure ==
    /\ built = "none"
    /\ LET b == build_project_structure(disk, project_name, "5", listing)
       IN  /\ disk' = b.fs
           /\ built' = b.ret
           /\ stages' = b.stages
    /\ UNCHANGED <<disk0, project_name>>
    /\ UNCHANGED <<mergeVars, replaceVars, treeVars, installVars, parVars, metaVars, updVars>>

\* update_ini_files on the project that was built
UpdateInputIni ==
    /\ built = "True"
    /\ Len(stages) = 3
    /\ \E desired_content \in InputSettings :
          disk' = update_input_ini(disk, <<project_name>>, desired_content)
    /\ stages' = Append(stages, [stage |-> "ini", ok |-> TRUE])
    /\ UNCHANGED <<disk0, project_name, built>>
    /\ UNCHANGED <<mergeVars, replaceVars, treeVars, installVars, parVars, metaVars, updVars>>

NextBuild ==
    \/ BuildProjectStructure
    \/ UpdateInputIni

SpecBuild == InitBuild /\ [][NextBuild]_vars

(***************************************************************************)
(* Claims about the structure copy                                         *)
(***************************************************************************)
\* C22: if any stage call fails (structure copy, identifier rewrite,
\* setting the engine version), no later stage is processed and the
\* failure is reported to the caller as a failed result: a build that
\* returned True ran no stage that failed, and no stage ran after a failed
\* one
C22_HaltsOnFailure ==
    /\ built = "True" => \A i \in DOMAIN stages : stages[i].ok
    /\ \A i \in DOMAIN stages : ~stages[i].ok => i = Len(stages)

Outside(fs, directory) ==
    {e \in fs : e.path # directory /\ ~IsUnder(directory, e.path)}

\* C24: update_directory_structure(root, ...) never renames, creates or
\* deletes root itself and changes nothing outside root, and
\* _merge_ini_file changes only its target file; in particular the template
\* directory from which build_project_structure copied the instance is
\* unchanged after the run.  In a build that returns True the project
\* directory is there under its own name and nothing beside it has changed;
\* in an update of DefaultInput.ini nothing has changed but that file and
\* the Config directory made for it.
C24_Confined ==
    [][ /\ (built = "none" /\ built' = "True") =>
            /\ Outside(disk', <<project_name>>) = Outside(disk, <<project_name>>)
            /\ \E e \in disk' : e.path = <<project_name>> /\ e.kind = "dir"
        /\ (built = "True" /\ disk' # disk) =>
            LET config_dir == <<project_name, ConfigDir>>
                target_path == Join(config_dir, DefaultInputIni)
            IN  /\ {e \in disk' : e.path \notin {config_dir, target_path}}
                     = {e \in disk : e.path \notin {config_dir, target_path}}
                /\ \A e \in disk : e.path = config_dir => e \in disk'
                /\ \E e \in disk' : e.path = config_dir /\ e.kind = "dir"
      ]_vars

\* a project whose name holds the template's name was built from a template
\* with a project file, a source file and a configuration file, beside
\* another project, and its DefaultInput.ini was merged
C24_Witness ==
    /\ built = "True"
    /\ Len(stages) = 4
    /\ project_name = TP_Blank2
    /\ OtherProject \subseteq disk0
    /\ \E e \in disk : e.path = <<TP_Blank2, Source, TP_Blank2 \o DotH>>
    /\ \E e \in disk : /\ e.path = <<TP_Blank2, ConfigDir, DefaultInputIni>>
                       /\ SplitLines(e.content) # <<HdrA, X1>>
    /\ \E e \in disk : e.path = Join(Join(TemplateDir, ConfigDir), DefaultInputIni)

(***************************************************************************)
(* Two runs side by side                                                   *)
(*   each run merges the DefaultGame.ini of its own project directory and  *)
(*   installs an archive there (UnrealEngineManager._merge_ini_file,       *)
(*   DownloadManager.extract_plugin_zip), one file system operation at a   *)
(*   time                                                                  *)
(***************************************************************************)
ProjA   == <<"P","r","o","j","A">>
ProjB   == <<"P","r","o","j","B">>
Plugins == <<"P","l","u","g","i","n","s">>

Runs == {1, 2}

\* mutant: the extraction directory lies in the working directory
temp_dir_Shared(plugins_dir) == <<Temp_Extract_Plugin>>

\* temp_dir = os.path.join(plugins_dir, "Temp_Extract_Plugin")
temp_dir(plugins_dir) == Join(plugins_dir, Temp_Extract_Plugin)

\* one operation of a run: from the operation to do, the run's local
\* variables and the file system to the next operation, the new local
\* variables and the new file system
RunStep(in, pc, loc, fs, ini) ==
    LET plugins_dir == <<in.target, Plugins>>
        temp == temp_dir(plugins_dir)
        to(next, l, f, n) == [pc |-> next, loc |-> l, fs |-> f, ini |-> n]
    IN  CASE pc = "read" ->
               to("write",
                  [loc EXCEPT !.existing =
                      IF ini[in.target].kind = "text"
                      THEN ini[in.target].lines ELSE <<>>],
                  fs, ini)
          [] pc = "write" ->
               to("makedirs_plugins", loc, fs,
                  [ini EXCEPT ![in.target] =
                      TextFile(MergedLines(loc.existing, in.desired))])
          [] pc = "makedirs_plugins" ->
               to("clean_temp", loc, makedirs(fs, plugins_dir), ini)
          [] pc = "clean_temp" ->
               to("makedirs_temp", loc,
                  IF PathExists(fs, temp)
                  THEN rmtree_ignore_errors(fs, temp, {}) ELSE fs,
                  ini)
          [] pc = "makedirs_temp" ->
               to("unzip", loc, makedirs(fs, temp), ini)
          [] pc = "unzip" ->
               IF in.archive.kind # "zip"
               THEN to("raised", loc, fs, ini)
               ELSE to("walk", loc,
                       extractall(makedirs(fs, temp), in.archive, temp), ini)
          [] pc = "walk" ->
               IF PluginFolders(fs, temp) = {}
               THEN to("rmtree_none", loc, fs, ini)
               ELSE to("rmtree_final",
                       [loc EXCEPT !.plugin_folder =
                           CHOOSE d \in PluginFolders(fs, temp) : TRUE],
                       fs, ini)
          [] pc = "rmtree_none" ->
               to("None", loc, rmtree_ignore_errors(fs, temp, {}), ini)
          [] pc = "rmtree_final" ->
               LET final_plugin_path ==
                       Join(plugins_dir, Basename(loc.plugin_folder))
               IN  to("move", loc,
                      IF PathExists(fs, final_plugin_path)
                      THEN rmtree_ignore_errors(fs, final_plugin_path, {})
                      ELSE fs,
                      ini)
          [] pc = "move" ->
               LET final_plugin_path ==
                       Join(plugins_dir, Basename(loc.plugin_folder))
                   moved == shutil_move(fs, loc.plugin_folder,
                                        final_plugin_path)
               IN  IF moved.raised THEN to("raised", loc, moved.fs, ini)
                   ELSE to("rmtree_temp", loc, moved.fs, ini)
          [] pc = "rmtree_temp" ->
               to("installed", loc, rmtree_ignore_errors(fs, temp, {}), ini)
          [] OTHER -> to(pc, loc, fs, ini)

Ended(pc) == pc \in {"installed", "None", "raised"}

NoLocals == [existing |-> <<>>, plugin_folder |-> <<>>]

\* the run executed alone, from the file system given, to its end
RECURSIVE RunAloneFrom(_, _, _, _, _)
RunAloneFrom(in, pc, loc, fs, ini) ==
    IF Ended(pc) THEN [pc |-> pc, fs |-> fs, ini |-> ini]
    ELSE LET n == RunStep(in, pc, loc, fs, ini)
         IN  RunAloneFrom(in, n.pc, n.loc, n.fs, n.ini)

RunAlone(in, fs, ini) == RunAloneFrom(in, "read", NoLocals, fs, ini)

\* what the two project directories may hold when the runs start
At(fs, directory) == {[e EXCEPT !.path = directory \o e.path] : e \in fs}

ProjectTrees(project_dir) ==
    { {ADir(<<project_dir>>)},
      {ADir(<<project_dir>>), ADir(<<project_dir, Plugins>>)}
         \cup At(InstalledUnit, <<project_dir, Plugins>>) }

IniFiles == {Missing, TextFile(<<HdrA, X1>>)}

ParArchives == {PluginArchive(2, NewTxt), WrappedArchive,
                NoDescriptorArchive, BadZip}

InitPar ==
    /\ \E a \in ProjectTrees(ProjA) : \E b \in ProjectTrees(ProjB) :
          par_fs = a \cup b
    /\ par_ini \in [{ProjA, ProjB} -> IniFiles]
    /\ \E archives \in [Runs -> ParArchives] :
          par_in = [r \in Runs |->
                      [target |-> IF r = 1 THEN ProjA ELSE ProjB,
                       archive |-> archives[r],
                       desired |-> IF r = 1 THEN <<HdrA, X2>>
                                   ELSE <<HdrB, PXf>>]]
    /\ par_pc = [r \in Runs |-> "read"]
    /\ par_loc = [r \in Runs |-> NoLocals]
    /\ par_fs0 = par_fs
    /\ par_ini0 = par_ini
    /\ MergeIdle
    /\ ReplaceIdle
    /\ TreeIdle
    /\ InstallIdle
    /\ BuildIdle
    /\ MetaIdle
    /\ UpdIdle

\* a run does its next operation
Step(r) ==
    /\ ~Ended(par_pc[r])
    /\ LET n == RunStep(par_in[r], par_pc[r], par_loc[r], par_fs, par_ini)
       IN  /\ par_pc' = [par_pc EXCEPT ![r] = n.pc]
           /\ par_loc' = [par_loc EXCEPT ![r] = n.loc]
           /\ par_fs' = n.fs
           /\ par_ini' = n.ini
    /\ UNCHANGED <<par_in, par_fs0, par_ini0>>
    /\ UNCHANGED <<mergeVars, replaceVars, treeVars, installVars, buildVars, metaVars, updVars>>

NextPar == \E r \in Runs : Step(r)

SpecPar == InitPar /\ [][NextPar]_vars

MaxSaves == 2

MetaKeys == {"project_name", "asset_type"}
MetaValues == {"x", "y"}
Dicts == UNION {[keys -> MetaValues] : keys \in SUBSET MetaKeys}

\* dict.update
Update(d, other) ==
    [k \in DOMAIN d \cup DOMAIN other |->
        IF k \in DOMAIN other THEN other[k] ELSE d[k]]

NoFile == [kind |-> "missing", data |-> <<>>]
Corrupt == [kind |-> "corrupt", data |-> <<>>]
JsonFile(d) == [kind |-> "json", data |-> d]

\* FileUtilityManager.save_metadata(project_dir, metadata): the file is
\* written first, then read back and updated with the same metadata
save_metadata(file, metadata) ==
    LET written == JsonFile(metadata)
        existing_data == written.data
    IN  JsonFile(Update(existing_data, metadata))

\* asset_manager.save_metadata(project_dir, data): the file is read, the
\* dict updated and written back
asset_manager_save_metadata(file, data) ==
    LET metadata == IF file.kind = "json" THEN file.data ELSE <<>>
    IN  JsonFile(Update(metadata, data))

\* get_metadata(project_dir): {} when the file is missing or unreadable
get_metadata(file) == IF file.kind = "json" THEN file.data ELSE <<>>

InitMeta ==
    /\ meta_file \in {NoFile, Corrupt}
    /\ saves = <<>>
    /\ MergeIdle
    /\ ReplaceIdle
    /\ TreeIdle
    /\ InstallIdle
    /\ BuildIdle
    /\ ParIdle
    /\ UpdIdle

ManagerSave ==
    /\ Len(saves) < MaxSaves
    /\ \E metadata \in Dicts :
          /\ meta_file' = save_metadata(meta_file, metadata)
          /\ saves' = Append(saves, [impl |-> "file_utility_manager",
                                     data |-> metadata])
    /\ UNCHANGED <<mergeVars, replaceVars, treeVars, installVars, buildVars,
                   parVars, updVars>>

AssetManagerSave ==
    /\ Len(saves) < MaxSaves
    /\ \E data \in Dicts :
          /\ meta_file' = asset_manager_save_metadata(meta_file, data)
          /\ saves' = Append(saves, [impl |-> "asset_manager", data |-> data])
    /\ UNCHANGED <<mergeVars, replaceVars, treeVars, installVars, buildVars,
                   parVars, updVars>>

NextMeta ==
    \/ ManagerSave
    \/ AssetManagerSave

SpecMeta == InitMeta /\ [][NextMeta]_vars

\* C26: after save_metadata(project, A) followed by save_metadata(project,
\* B), get_metadata(project) returns A updated with B: every key of A that
\* is absent from B is still present with its value from A, and keys
\* present in both carry B's value
C26_MetadataMerged ==
    Len(saves) = 2 =>
        LET A == saves[1].data
            B == saves[2].data
            got == get_metadata(meta_file)
        IN  /\ DOMAIN got = DOMAIN A \cup DOMAIN B
            /\ \A k \in DOMAIN B : got[k] = B[k]
            /\ \A k \in DOMAIN A \ DOMAIN B : got[k] = A[k]


(***************************************************************************)
(* The update run                                                          *)
(*   UnrealEngineManager.update_modding_dependencies                       *)
(*   (unreal_engine_manager.py), FileUtilityManager.delete_paths           *)
(*   (file_utility_manager.py), DownloadManager.download_modding_          *)
(*   dependencies (download_utils.py)                                      *)
(***************************************************************************)
ConvaiEssentials == <<"C","o","n","v","a","i","E","s","s","e","n","t","i","a","l","s">>
ConvaiConveniencePack ==
    <<"C","o","n","v","a","i","C","o","n","v","e","n","i","e","n","c","e","P","a","c","k">>
ConvaiHTTP == Convai \o <<"H","T","T","P">>
ConvaiPakManager == Convai \o <<"P","a","k","M","a","n","a","g","e","r">>
ConvAI == <<"C","o","n","v","A","I">>
DotZip == <<".","z","i","p">>
OldZip == <<"O","l","d",".","Z","I","P">>
BracketProj == <<"P","[","1","]">>
P1 == <<"P","1">>

\* config: plugin_files, and the keys of "github" in their order
convai_plugin_names ==
    <<ConvAI \o DotUplugin, ConvaiHTTP \o DotUplugin,
      ConvaiPakManager \o DotUplugin>>

github_plugins ==
    <<"convai_plugin", "convai_http_plugin", "convai_convenience_pack",
      "convai_pak_manager">>

\* fnmatch.fnmatchcase(name, pat) for the patterns of one path component:
\* "*", "?", a class "[...]" (taken as the set of its characters: the names
\* here hold no "!" and no "-"), and a "[" that is never closed, which
\* stands for itself
ClassEnd(pat) ==
    LET from == IF Len(pat) >= 2 /\ pat[2] = "]" THEN 3 ELSE 2
    IN  IF \E j \in from..Len(pat) : pat[j] = "]"
        THEN CHOOSE j \in from..Len(pat) :
                 pat[j] = "]" /\ \A i \in from..(j - 1) : pat[i] # "]"
        ELSE 0

RECURSIVE fnmatch(_, _)
fnmatch(name, pat) ==
    IF pat = <<>> THEN name = <<>>
    ELSE IF pat[1] = "*"
    THEN \E k \in 0..Len(name) :
            fnmatch(SubSeq(name, k + 1, Len(name)), Tail(pat))
    ELSE IF name = <<>> THEN FALSE
    ELSE IF pat[1] = "?" THEN fnmatch(Tail(name), Tail(pat))
    ELSE IF pat[1] = "[" /\ ClassEnd(pat) > 0
    THEN /\ \E i \in 2..(ClassEnd(pat) - 1) : pat[i] = name[1]
         /\ fnmatch(Tail(name), SubSeq(pat, ClassEnd(pat) + 1, Len(pat)))
    ELSE name[1] = pat[1] /\ fnmatch(Tail(name), Tail(pat))

\* glob.has_magic
has_magic(pathname) ==
    \E i \in 1..Len(pathname) : \E j \in 1..Len(pathname[i]) :
        pathname[i][j] \in {"*", "?", "["}

\* glob.glob(pathname): the path itself when it has no pattern character
\* and exists, the existing paths that match component by component
\* otherwise
glob(fs, pathname) ==
    IF ~has_magic(pathname)
    THEN IF PathExists(fs, pathname) THEN {pathname} ELSE {}
    ELSE {e.path : e \in {x \in fs :
             /\ Len(x.path) = Len(pathname)
             /\ \A i \in 1..Len(pathname) : fnmatch(x.path[i], pathname[i])}}

\* PluginManager.find_plugin_directory: the directories right below Plugins
\* that hold the descriptor; the code returns the first one the system
\* lists, None when the set is empty
find_plugin_directory(fs, project_dir, uplugin_filename) ==
    {d.path : d \in {e \in fs :
        /\ e.kind = "dir"
        /\ Dirname(e.path) = Join(project_dir, Plugins)
        /\ PathExists(fs, Join(e.path, uplugin_filename))}}

\* FileUtilityManager.delete_file_if_exists: an OSError is logged
delete_file_if_exists(fs, file_path, held) ==
    IF PathExists(fs, file_path) /\ file_path \notin held
    THEN {e \in fs : e.path # file_path}
    ELSE fs

\* FileUtilityManager.delete_directory_if_exists: what shutil.rmtree
\* raises is logged, the outcomes are those of rmtree
delete_directory_if_exists(fs, directory_path, held) ==
    {o.fs : o \in rmtree(fs, directory_path, held)}

\* the body of the loops of delete_paths for one matched path
DeleteMatched(fs, matched_path, held) ==
    IF EntryAt(fs, matched_path).kind = "file"
    THEN {delete_file_if_exists(fs, matched_path, held)}
    ELSE delete_directory_if_exists(fs, matched_path, held)

\* FileUtilityManager.delete_paths for one path_pattern: the outcomes
RECURSIVE DeleteAll(_, _, _)
DeleteAll(fss, matches, held) ==
    IF matches = {} THEN fss
    ELSE LET m == CHOOSE x \in matches : TRUE
         IN  DeleteAll(UNION {DeleteMatched(fs, m, held) : fs \in fss},
                       matches \ {m}, held)

delete_paths(fs, path_pattern, held) ==
    DeleteAll({fs}, glob(fs, path_pattern), held)


\* the stale units a project can hold before an update, by what they are
StaleUnit(project_dir, what) ==
    LET plugins_dir == Join(project_dir, Plugins)
        content_dir == Join(project_dir, ContentDir)
        zip_dir     == Join(project_dir, ConvaiEssentials)
    IN  CASE what = "convai" ->
               {ADir(plugins_dir), ADir(Join(plugins_dir, Convai)),
                AFile(<<project_dir[1], Plugins, Convai, ConvAI \o DotUplugin>>, 1),
                AFile(<<project_dir[1], Plugins, Convai, OldTxt>>, 1)}
          [] what = "http" ->
               {ADir(plugins_dir), ADir(Join(plugins_dir, ConvaiHTTP)),
                AFile(<<project_dir[1], Plugins, ConvaiHTTP,
                        ConvaiHTTP \o DotUplugin>>, 1)}
          [] what = "pack" ->
               {ADir(Join(content_dir, ConvaiConveniencePack)),
                AFile(<<project_dir[1], ContentDir, ConvaiConveniencePack,
                        OldTxt>>, 1)}
          [] what = "zip" ->
               {ADir(zip_dir), AFile(Join(zip_dir, OldZip), 1)}

StaleKinds == {"convai", "http", "pack", "zip"}

ProjectWith(project_dir, kinds) ==
    {ADir(project_dir), ADir(Join(project_dir, ContentDir))}
        \cup UNION {StaleUnit(project_dir, what) : what \in kinds}

\* what a release archive holds, by the key of the plugin in the config
ReleaseArchive(plugin_name) ==
    LET unit == CASE plugin_name = "convai_plugin" -> Convai
                  [] plugin_name = "convai_http_plugin" -> ConvaiHTTP
                  [] plugin_name = "convai_convenience_pack" -> ConvaiConveniencePack
                  [] plugin_name = "convai_pak_manager" -> ConvaiPakManager
        inside == CASE plugin_name = "convai_plugin" -> ConvAI \o DotUplugin
                    [] plugin_name = "convai_convenience_pack" -> NewTxt
                    [] OTHER -> unit \o DotUplugin
    IN  [kind |-> "zip", ver |-> 2, name |-> unit \o DotZip,
         entries |-> {ADir(<<unit>>), AFile(<<unit, inside>>, 2)},
         unit |-> {AFile(<<inside>>, 2)}]

\* the entries below directory replaced by sub, whose paths start there
Replant(fs, directory, sub) ==
    {e \in fs : ~IsUnder(directory, e.path)}
        \cup {ADir(directory)}
        \cup {[e EXCEPT !.path = directory \o e.path] : e \in sub}

\* DownloadManager.download_plugin_from_github once the release archive is
\* in ConvaiEssentials: extract_content_pack for the content pack,
\* extract_plugin_zip for a plugin; what they raise is caught
InstallRelease(fs, project_dir, plugin_name, held) ==
    LET archive      == ReleaseArchive(plugin_name)
        download_dir == Join(project_dir, ConvaiEssentials)
        fs1 == (fs \cup {ADir(download_dir)})
                  \cup {AFile(Join(download_dir, archive.name), archive.ver)}
        plugins_dir == Join(project_dir, Plugins)
        content_dir == Join(project_dir, ContentDir)
        below == {SubSeq(h, Len(plugins_dir) + 1, Len(h)) :
                     h \in {x \in held : IsUnder(plugins_dir, x)}}
    IN  IF plugin_name = "convai_convenience_pack"
        THEN {extractall(fs1 \cup {ADir(content_dir)}, archive, content_dir)}
        ELSE {Replant(fs1, plugins_dir, o.fs) :
                o \in extract_plugin_zip(Below(fs1, plugins_dir), archive, below)}

UpdProjects == {<<MyProj>>, <<BracketProj>>}

\* the step after the analysis, and after each loop
StepAfter(step, to_delete, zips) ==
    IF step = "analyze" /\ to_delete # <<>> THEN "delete_paths"
    ELSE IF step \in {"analyze", "delete_paths"} /\ zips # <<>> THEN "delete_zips"
    ELSE "download"

InitUpdate ==
    /\ upd_dir \in UpdProjects
    /\ \E kinds \in SUBSET StaleKinds : \E other \in SUBSET {"convai"} :
          upd_fs = ProjectWith(upd_dir, kinds) \cup
                   (IF other = {} THEN {} ELSE ProjectWith(<<P1>>, other))
    /\ upd_fs0 = upd_fs
    /\ upd_held \in {{}} \cup {{f.path} : f \in {e \in upd_fs : e.kind = "file"}}
    /\ paths_to_delete = <<>>
    /\ zip_files = <<>>
    /\ upd_pc = "analyze"
    /\ upd_k = 1
    /\ MergeIdle
    /\ ReplaceIdle
    /\ TreeIdle
    /\ InstallIdle
    /\ BuildIdle
    /\ ParIdle
    /\ MetaIdle

OneOrNone(S) == IF S = {} THEN {<<>>} ELSE {<<x>> : x \in S}

\* update_modding_dependencies up to the logging of what was found
Analyze ==
    /\ upd_pc = "analyze"
    /\ LET convenience_pack_dir ==
               <<upd_dir[1], ContentDir, ConvaiConveniencePack>>
           zip_dir == Join(upd_dir, ConvaiEssentials)
           zips == {e.path : e \in {x \in upd_fs :
                       /\ Dirname(x.path) = zip_dir
                       /\ EndsWith(Lower(Basename(x.path)), DotZip)}}
       IN  \E d1 \in OneOrNone(find_plugin_directory(upd_fs, upd_dir,
                                                     convai_plugin_names[1])),
              d2 \in OneOrNone(find_plugin_directory(upd_fs, upd_dir,
                                                     convai_plugin_names[2])),
              d3 \in OneOrNone(find_plugin_directory(upd_fs, upd_dir,
                                                     convai_plugin_names[3])),
              listed \in {q \in [1..Cardinality(zips) -> zips] :
                             \A i, j \in 1..Cardinality(zips) :
                                 i # j => q[i] # q[j]} :
             /\ paths_to_delete' =
                    d1 \o d2 \o d3 \o
                    (IF PathExists(upd_fs, convenience_pack_dir)
                     THEN <<convenience_pack_dir>> ELSE <<>>)
             /\ zip_files' = listed
             /\ upd_pc' = StepAfter("analyze", paths_to_delete', zip_files')
    /\ upd_k' = 1
    /\ UNCHANGED <<upd_fs, upd_fs0, upd_held, upd_dir>>
    /\ UNCHANGED <<mergeVars, replaceVars, treeVars, installVars, buildVars,
                   parVars, metaVars>>

\* FileUtilityManager.delete_paths(paths_to_delete), one path at a time
DeletePaths ==
    /\ upd_pc = "delete_paths"
    /\ \E fs \in delete_paths(upd_fs, paths_to_delete[upd_k], upd_held) :
          upd_fs' = fs
    /\ IF upd_k < Len(paths_to_delete)
       THEN upd_k' = upd_k + 1 /\ upd_pc' = upd_pc
       ELSE upd_k' = 1
            /\ upd_pc' = StepAfter("delete_paths", paths_to_delete, zip_files)
    /\ UNCHANGED <<upd_fs0, upd_held, upd_dir, paths_to_delete, zip_files>>
    /\ UNCHANGED <<mergeVars, replaceVars, treeVars, installVars, buildVars,
                   parVars, metaVars>>

\* FileUtilityManager.delete_paths(zip_files), one path at a time
DeleteZips ==
    /\ upd_pc = "delete_zips"
    /\ \E fs \in delete_paths(upd_fs, zip_files[upd_k], upd_held) :
          upd_fs' = fs
    /\ IF upd_k < Len(zip_files)
       THEN upd_k' = upd_k + 1 /\ upd_pc' = upd_pc
       ELSE upd_k' = 1 /\ upd_pc' = "download"
    /\ UNCHANGED <<upd_fs0, upd_held, upd_dir, paths_to_delete, zip_files>>
    /\ UNCHANGED <<mergeVars, replaceVars, treeVars, installVars, buildVars,
                   parVars, metaVars>>

\* DownloadManager.download_modding_dependencies, one plugin at a time: the
\* download fails and the loop goes on, or the release is installed
Download ==
    /\ upd_pc = "download"
    /\ \/ upd_fs' = upd_fs
       \/ \E fs \in InstallRelease(upd_fs, upd_dir, github_plugins[upd_k],
                                   upd_held) :
             upd_fs' = fs
    /\ IF upd_k < Len(github_plugins)
       THEN upd_k' = upd_k + 1 /\ upd_pc' = upd_pc
       ELSE upd_k' = upd_k /\ upd_pc' = "done"
    /\ UNCHANGED <<upd_fs0, upd_held, upd_dir, paths_to_delete, zip_files>>
    /\ UNCHANGED <<mergeVars, replaceVars, treeVars, installVars, buildVars,
                   parVars, metaVars>>

NextUpdate ==
    \/ Analyze
    \/ DeletePaths
    \/ DeleteZips
    \/ Download

SpecUpdate == InitUpdate /\ [][NextUpdate]_vars

\* C29: update ordering.  When the first download of an update run is
\* about to start, the removal step has run for every path that was found,
\* and none of the plugin directories, the content pack directory and the
\* zip files that were found is on the disk any more.
C29_StaleRemovedFirst ==
    (upd_pc = "download" /\ upd_k = 1) =>
        /\ \A i \in 1..Len(paths_to_delete) :
              ~PathExists(upd_fs, paths_to_delete[i])
        /\ \A i \in 1..Len(zip_files) : ~PathExists(upd_fs, zip_files[i])

====
